---- MODULE Spec2Model ----
(***************************************************************************)
(* Verification model of the solar-panel stringing optimizers of           *)
(* robermonalee/auto-stringing.                                            *)
(*                                                                         *)
(* Two engines named SimpleStringingOptimizer are modelled:                *)
(*   engine = "stringer" : src/stringer/simple_stringing.py                *)
(*   engine = "v2"       : src/v2/simple_stringing.py (+ validatePower.py) *)
(*                                                                         *)
(* Numbers.  The code computes with floats.  The model uses exact integer  *)
(* arithmetic: a temperature-adjusted voltage v * (1 + c * dT) is kept as  *)
(* the integer v * (100000 + C * dT) with C = c * 100000, and a distance   *)
(* is kept as its square, so every comparison and every int(a / b) of the  *)
(* code has the same outcome on the (positive, integer) inputs used here.  *)
(*                                                                         *)
(* Unordered sets.  Where the code iterates a Python set of panel ids      *)
(* (strings, whose hash is randomised per process) the model makes a       *)
(* nondeterministic choice among the candidates the iteration order can    *)
(* select.  A set(range(n)) of small ints is iterated and popped in        *)
(* increasing order, as the interpreter does.                              *)
(***************************************************************************)
EXTENDS Integers, Sequences, FiniteSets, TLC

(***************************************************************************)
(* Bounds of the model                                                     *)
(***************************************************************************)
MaxPanels == 7

(***************************************************************************)
(* Generic helpers on sequences and sets                                   *)
(***************************************************************************)
Range(s) == {s[i] : i \in DOMAIN s}

Min(S) == CHOOSE m \in S : \A n \in S : m <= n

Max(S) == CHOOSE m \in S : \A n \in S : m >= n

MinOf(a, b) == IF a <= b THEN a ELSE b

MaxOf(a, b) == IF a >= b THEN a ELSE b

RECURSIVE SumLens(_)
SumLens(ss) == IF ss = <<>> THEN 0 ELSE Len(Head(ss)) + SumLens(Tail(ss))

RECURSIVE Flatten(_)
Flatten(ss) == IF ss = <<>> THEN <<>> ELSE Head(ss) \o Flatten(Tail(ss))

RECURSIVE SelectInOrder(_, _)
SelectInOrder(s, keep) ==
    IF s = <<>> THEN <<>>
    ELSE IF Head(s) \in keep THEN <<Head(s)>> \o SelectInOrder(Tail(s), keep)
         ELSE SelectInOrder(Tail(s), keep)

\* Python int(a / b) for a >= 0, b > 0
IntDiv(a, b) == a \div b


(***************************************************************************)
(* State                                                                   *)
(***************************************************************************)
VARIABLES
    engine,                  \* which SimpleStringingOptimizer is under test
    panel_specs,             \* self.panel_specs: the caller's panel list
    inverter_specs,          \* self.inverter_specs
    temperature_data,        \* self.temperature_data
    roof_planes,             \* self.roof_planes (stringer): roof id -> <<azimuth, pitch>>
    validate_power,          \* the validate_power option of the optimize call
    min_panels_per_string,   \* self.min_panels_per_string
    max_panels_per_string,   \* self.max_panels_per_string
    ideal_panels_per_string, \* self.ideal_panels_per_string
    power_validator,         \* self.power_validator
    straggler_warnings,      \* self.straggler_warnings
    pc,                      \* position inside __init__ / optimize
    all_clusters,            \* optimize: clusters (stringer) or roof groups (v2) still to string
    all_strings,             \* optimize: all_strings
    unstrung_panels,         \* optimize: unstrung_panels (stringer)
    mppts,                   \* optimize: mppts
    all_connections,         \* optimize: all_connections (inverter -> MPPT -> strings)
    formatted_output,        \* the returned plan (formatted_output)
    raised,                  \* the exception that left optimize, or "none"
    runs,                    \* how many times the caller has called optimize
    first_output,            \* the plan the first call returned
    panels_data,             \* the panel dictionaries handed to sort_panels_guided_pca
    method,                  \* the method argument of sort_panels_guided_pca
    sorted_ids,              \* what a panel sequencer returned
    inverters_quantity,      \* the inverters_quantity argument of __init__ (stringer)
    inverter_specs_data,     \* the argument of create_inverter_specs_object
    valid_string_plans,      \* _generate_valid_string_plans: valid_plans (solar)
    call_stack,              \* the calls of _find_string_combinations in progress
    combinations,            \* _generate_valid_string_plans: combinations of the group
    query,                   \* the arguments of a validate_string_assignment call
    validation               \* what validate_string_assignment returned

vars == <<engine, panel_specs, inverter_specs, temperature_data, roof_planes,
          validate_power, min_panels_per_string, max_panels_per_string,
          ideal_panels_per_string, power_validator, straggler_warnings, pc,
          all_clusters, all_strings, unstrung_panels, mppts, all_connections,
          formatted_output, raised, runs, first_output,
          panels_data, method, sorted_ids, inverters_quantity, inverter_specs_data,
          valid_string_plans, call_stack, combinations, query, validation>>

\* the arguments and results of what is called outside optimize
standalone == <<panels_data, method, sorted_ids, inverters_quantity,
                inverter_specs_data, valid_string_plans, call_stack,
                combinations, query, validation>>

inputs == <<engine, panel_specs, inverter_specs, temperature_data, roof_planes,
            validate_power>>

(***************************************************************************)
(* Inputs: panel layouts, panel type, inverter, temperatures               *)
(***************************************************************************)
\* Panel centres lie on a grid of pitch 60 with two rows: neighbours are 60 or
\* 84.9 apart, the next ring 120 or 134.2, the far ones 180 and more.
CellSeq == << <<0, 0>>, <<0, 60>>, <<60, 0>>, <<60, 60>>,
              <<120, 0>>, <<120, 60>>, <<180, 0>>, <<180, 60>> >>

\* x coordinate from which a panel belongs to roof "r2" (1000: one roof only)
RoofSplits == {120, 1000}

PanelTypes == {[voc_stc |-> 50, isc_stc |-> 11, vmpp_stc |-> 40, impp_stc |-> 10]}

RECURSIVE MakePanels(_, _, _, _)
MakePanels(cells, split, type, n) ==
    IF cells = <<>> THEN <<>>
    ELSE << [panel_id |-> n,
             voc_stc |-> type.voc_stc, isc_stc |-> type.isc_stc,
             vmpp_stc |-> type.vmpp_stc, impp_stc |-> type.impp_stc,
             roof_plane_id |-> IF Head(cells)[1] < split THEN "r1" ELSE "r2",
             center_coords |-> Head(cells)] >>
         \o MakePanels(Tail(cells), split, type, n + 1)

PanelLists ==
    \* every non-empty choice among the first MaxPanels grid cells, column by column
    LET Layouts ==
            LET cells == SubSeq(CellSeq, 1, MinOf(MaxPanels, Len(CellSeq)))
            IN { SelectInOrder(cells, S) : S \in (SUBSET Range(cells)) \ {{}} }
    IN
    { MakePanels(cells, split, type, 1) :
        cells \in Layouts, split \in RoofSplits, type \in PanelTypes }

Temperatures ==
    {[min_temp_c |-> -10, max_temp_c |-> 45, avg_high_temp_c |-> 22, avg_low_temp_c |-> 12]}

InverterChoices ==
    [ max_dc_voltage : {120, 180, 240},
      mppt_min_voltage : {60},
      mppt_max_voltage : {480},
      max_dc_current_per_mppt : {8, 15, 20},
      number_of_mppts : {1, 2},
      startup_voltage : {60},
      rated_ac_power_w : {1000, 5000},
      number_of_inverters : {1, 2} ]

\* auto_design_data["roof_planes"]: absent, one roof only, both roofs with the
\* same azimuth/pitch, both roofs with different azimuth
RoofPlaneChoices ==
    { <<>>,
      [r \in {"r1"} |-> <<180, 20>>],
      [r \in {"r1", "r2"} |-> <<180, 20>>],
      [r \in {"r1", "r2"} |-> IF r = "r1" THEN <<180, 20>> ELSE <<90, 20>>] }

(***************************************************************************)
(* Geometry                                                                *)
(***************************************************************************)
\* _distance, squared: (x2 - x1)**2 + (y2 - y1)**2
distance(p1, p2) ==
    LET dx == p2.center_coords[1] - p1.center_coords[1]
        dy == p2.center_coords[2] - p1.center_coords[2]
    IN dx * dx + dy * dy

\* threshold = 100.0 (clusters, neighbours), squared
threshold == 100 * 100

\* self.panel_lookup = {p.panel_id: p for p in panel_specs}: the last panel wins
panel_lookup ==
    [pid \in {panel_specs[i].panel_id : i \in DOMAIN panel_specs} |->
        panel_specs[Max({i \in DOMAIN panel_specs : panel_specs[i].panel_id = pid})]]

Ids(ps) == [i \in DOMAIN ps |-> ps[i].panel_id]

(***************************************************************************)
(* Constraint calculator: _calculate_voltage_constraints                   *)
(***************************************************************************)
\* vmpp_hot = panel.vmpp_stc * (1 + temp_coeff_vmpp * (max_temp_c - 25)), times 100000
vmpp_hot(panel) ==
    LET temp_coeff_vmpp == IF engine = "stringer" THEN -446 ELSE 446
    IN
    panel.vmpp_stc * (100000 + temp_coeff_vmpp * (temperature_data.max_temp_c - 25))

calc_max_panels ==
    \* voc_cold = panel.voc_stc * (1 + temp_coeff_voc * (min_temp_c - 25)), times 100000
    LET voc_cold(panel) ==
            \* temp_coeff_voc and temp_coeff_vmpp, times 100000
            LET temp_coeff_voc == IF engine = "stringer" THEN -279 ELSE 279
            IN
            panel.voc_stc * (100000 + temp_coeff_voc * (temperature_data.min_temp_c - 25))
    IN
    IntDiv(inverter_specs.max_dc_voltage * 100000, voc_cold(panel_specs[1]))

calc_min_panels ==
    MaxOf(3, IntDiv(inverter_specs.mppt_min_voltage * 100000, vmpp_hot(panel_specs[1])))

calc_ideal_panels == MinOf(9, calc_max_panels)

(***************************************************************************)
(* Spatial clusterer                                                       *)
(***************************************************************************)
\* roof ids in order of first appearance (the key order of the dict)
RECURSIVE RoofOrder(_, _)
RoofOrder(ps, seen) ==
    IF ps = <<>> THEN <<>>
    ELSE IF Head(ps).roof_plane_id \in seen THEN RoofOrder(Tail(ps), seen)
         ELSE <<Head(ps).roof_plane_id>>
              \o RoofOrder(Tail(ps), seen \cup {Head(ps).roof_plane_id})

PanelsOfRoof(ps, roof) == SelectSeq(ps, LAMBDA p : p.roof_plane_id = roof)

\* _group_by_roof_plane: sequence of [roof_id, panels], in dict order
group_by_roof_plane ==
    LET order == RoofOrder(panel_specs, {})
    IN [k \in DOMAIN order |->
          [roof_id |-> order[k], panels |-> PanelsOfRoof(panel_specs, order[k])]]

\* one pass "for idx in ungrouped": todo is the part of ungrouped not yet
\* visited; returns <<group, to_remove>>
RECURSIVE GrowPass(_, _, _, _)
GrowPass(panels, group, todo, to_remove) ==
    \* is panel within the threshold of some panel of group
    LET NearGroup(panel, group0) ==
            \E k \in DOMAIN group0 : distance(panel, group0[k]) <= threshold
    IN
    IF todo = {} THEN <<group, to_remove>>
    ELSE LET idx == Min(todo)
         IN IF NearGroup(panels[idx], group)
            THEN GrowPass(panels, Append(group, panels[idx]), todo \ {idx},
                          to_remove \cup {idx})
            ELSE GrowPass(panels, group, todo \ {idx}, to_remove)

\* "while changed": returns <<group, ungrouped>>
RECURSIVE GrowGroup(_, _, _)
GrowGroup(panels, group, ungrouped) ==
    LET pass == GrowPass(panels, group, ungrouped, {})
    IN IF pass[2] = {} THEN <<group, ungrouped>>
       ELSE GrowGroup(panels, pass[1], ungrouped \ pass[2])

\* "while ungrouped": ungrouped.pop() takes the smallest index
RECURSIVE GroupLoop(_, _, _)
GroupLoop(panels, ungrouped, groups) ==
    IF ungrouped = {} THEN groups
    ELSE LET first == Min(ungrouped)
             grown == GrowGroup(panels, <<panels[first]>>, ungrouped \ {first})
         IN GroupLoop(panels, grown[2], Append(groups, grown[1]))

\* _group_panels_by_proximity (also _group_straggler_by_proximity)
group_panels_by_proximity_of_seed(panels) ==
    LET RECURSIVE SeedLoop(_, _)
        SeedLoop(ungrouped, groups) ==
            IF ungrouped = {} THEN groups
            ELSE LET first == Min(ungrouped)
                     near == {i \in ungrouped \ {first} :
                                distance(panels[i], panels[first]) <= threshold}
                 IN SeedLoop(ungrouped \ ({first} \cup near),
                             Append(groups, <<panels[first]>>
                                            \o SelectInOrder(panels, {panels[i] : i \in near})))
    IN IF panels = <<>> THEN <<>> ELSE SeedLoop(DOMAIN panels, <<>>)
group_panels_by_proximity(panels) ==
    IF panels = <<>> THEN <<>> ELSE GroupLoop(panels, DOMAIN panels, <<>>)

identify_clusters ==
    \* list.sort(key=len, reverse=True): stable, longest first
    LET RECURSIVE InsertByLen(_, _)
        InsertByLen(sorted, item) ==
            IF sorted = <<>> THEN <<item>>
            ELSE IF Len(Head(sorted).cluster) >= Len(item.cluster)
                 THEN <<Head(sorted)>> \o InsertByLen(Tail(sorted), item)
                 ELSE <<item>> \o sorted
    IN
    \* optimize, step 1 (stringer): all clusters of all roofs, largest first
    LET RECURSIVE ClustersOfRoofs(_)
        ClustersOfRoofs(roof_groups) ==
            IF roof_groups = <<>> THEN <<>>
            ELSE LET clusters == group_panels_by_proximity(Head(roof_groups).panels)
                 IN [k \in DOMAIN clusters |->
                       [cluster |-> clusters[k], roof_id |-> Head(roof_groups).roof_id]]
                    \o ClustersOfRoofs(Tail(roof_groups))
    IN
    LET RECURSIVE SortByLenDesc(_, _)
        SortByLenDesc(items, sorted) ==
            IF items = <<>> THEN sorted
            ELSE SortByLenDesc(Tail(items), InsertByLen(sorted, Head(items)))
    IN
    SortByLenDesc(ClustersOfRoofs(group_by_roof_plane), <<>>)

(***************************************************************************)
(* Panel sequencer and string builder (nearest neighbour)                  *)
(***************************************************************************)
\* _find_corner_panel: the first panel with the fewest neighbours
find_corner_panel(panels) ==
    LET NeighborCount(panels0, i) ==
            Cardinality({j \in DOMAIN panels0 :
                            /\ panels0[j].panel_id # panels0[i].panel_id
                            /\ distance(panels0[i], panels0[j]) <= threshold})
    IN
    IF Len(panels) = 1 THEN panels[1]
    ELSE LET fewest == Min({NeighborCount(panels, i) : i \in DOMAIN panels})
         IN panels[Min({i \in DOMAIN panels : NeighborCount(panels, i) = fewest})]

\* panel_lookup = {p.panel_id: p for p in all_panels}
LocalLookup(all_panels, pid) ==
    all_panels[Max({i \in DOMAIN all_panels : all_panels[i].panel_id = pid})]

\* the ids one nearest-neighbour step can select: the candidates at the
\* smallest distance (the first of them in set iteration order wins), none
\* if there is no candidate or the nearest is beyond the jump threshold
NearestChoices(current, all_panels, unconnected, string) ==
    \* max_distance_threshold of _build_string_nearest_neighbor, squared
    LET max_distance_threshold == IF engine = "stringer" THEN 150 * 150 ELSE 100 * 100
    IN
    LET temp_unconnected ==
            IF engine = "stringer" THEN unconnected \ {current.panel_id}
            ELSE unconnected
        cands == temp_unconnected \ Range(string)
    IN IF cands = {} THEN {}
       ELSE LET closest_distance ==
                    Min({distance(current, LocalLookup(all_panels, pid)) : pid \in cands})
            IN IF closest_distance <= max_distance_threshold
               THEN {pid \in cands :
                        distance(current, LocalLookup(all_panels, pid)) = closest_distance}
               ELSE {}

\* the while loop of _build_string_nearest_neighbor: every string it can return
RECURSIVE GrowString(_, _, _, _, _)
GrowString(string, current, all_panels, unconnected, limit) ==
    IF Len(string) < limit
    THEN LET choices == NearestChoices(current, all_panels, unconnected, string)
         IN IF choices = {} THEN {string}
            ELSE UNION { GrowString(Append(string, pid), LocalLookup(all_panels, pid),
                                    all_panels, unconnected, limit) : pid \in choices }
    ELSE {string}

\* _build_string_nearest_neighbor: the stringer grows to max_panels_per_string
\* and trims to the ideal length, v2 grows to the ideal length
build_string_nearest_neighbor(start_panel, all_panels, unconnected) ==
    IF engine = "stringer"
    THEN { IF Len(string) > ideal_panels_per_string
           THEN SubSeq(string, 1, MaxOf(ideal_panels_per_string, 0))
           ELSE string :
             string \in GrowString(<<start_panel.panel_id>>, start_panel, all_panels,
                                   unconnected, max_panels_per_string) }
    ELSE GrowString(<<start_panel.panel_id>>, start_panel, all_panels,
                    unconnected, ideal_panels_per_string)

Remaining(panels, unconnected) == SelectSeq(panels, LAMBDA p : p.panel_id \in unconnected)

\* the while loop of _string_cluster / _string_roof_plane: every outcome
\* <<strings, unconnected>> it can end with
RECURSIVE StringLoop(_, _, _)
StringLoop(panels, unconnected, strings) ==
    IF Cardinality(unconnected) >= min_panels_per_string
    THEN LET start_panel == find_corner_panel(Remaining(panels, unconnected))
         IN UNION { IF Len(string) >= min_panels_per_string
                    THEN StringLoop(panels, unconnected \ Range(string),
                                    Append(strings, string))
                    ELSE {<<strings, unconnected>>} :
                      string \in build_string_nearest_neighbor(start_panel, panels,
                                                               unconnected) }
    ELSE {<<strings, unconnected>>}

\* _string_cluster (stringer): outcomes [strings, leftovers]
string_cluster(cluster) ==
    { [strings |-> o[1], leftovers |-> Remaining(cluster, o[2])] :
        o \in StringLoop(cluster, {cluster[i].panel_id : i \in DOMAIN cluster}, <<>>) }

(***************************************************************************)
(* Straggler resolver (stringer)                                           *)
(***************************************************************************)
RoofOfString(string) == panel_lookup[string[1]].roof_plane_id

\* index of the closest string among the eligible ones (the first at the
\* smallest distance, "if dist < min_dist"), 0 if there is none
ClosestString(strings, straggler, eligible) ==
    \* distance from a straggler to the nearest panel of a string
    LET DistToString(string, straggler0) ==
            Min({distance(panel_lookup[string[k]], straggler0) : k \in DOMAIN string})
    IN
    IF eligible = {} THEN 0
    ELSE LET min_dist == Min({DistToString(strings[i], straggler) : i \in eligible})
         IN Min({i \in eligible : DistToString(strings[i], straggler) = min_dist})

can_absorb_at_limit(closest_string) == Len(closest_string) <= max_panels_per_string

\* the "if closest_string and len(closest_string) < max_panels_per_string" test
can_absorb(closest_string) == Len(closest_string) < max_panels_per_string

\* the body of the straggler loop: <<strings, still_stragglers>>
AbsorbOne(strings, still, straggler, eligible) ==
    LET c == ClosestString(strings, straggler, eligible)
    IN IF c # 0 /\ can_absorb(strings[c])
       THEN <<[strings EXCEPT ![c] = Append(@, straggler.panel_id)], still>>
       ELSE <<strings, Append(still, straggler)>>

\* _absorb_stragglers: strings of the straggler's own roof plane
RECURSIVE absorb_stragglers(_, _, _)
absorb_stragglers(strings, stragglers, still) ==
    IF stragglers = <<>> THEN <<strings, still>>
    ELSE LET straggler == Head(stragglers)
             eligible == {i \in DOMAIN strings :
                             RoofOfString(strings[i]) = straggler.roof_plane_id}
             r == AbsorbOne(strings, still, straggler, eligible)
         IN absorb_stragglers(r[1], Tail(stragglers), r[2])

\* _get_similar_roof_groups / roof_to_group_map: roofs with the same
\* (azimuth, pitch) share a group; a roof missing from roof_planes has none
NoGroup == <<>>

roof_to_group_map(roof_id) ==
    IF roof_id \in DOMAIN roof_planes THEN roof_planes[roof_id] ELSE NoGroup

\* _absorb_stragglers_across_similar_roofs
RECURSIVE absorb_stragglers_across_similar_roofs(_, _, _)
absorb_stragglers_across_similar_roofs(strings, stragglers, still) ==
    IF stragglers = <<>> THEN <<strings, still>>
    ELSE LET straggler == Head(stragglers)
             straggler_group == roof_to_group_map(straggler.roof_plane_id)
             eligible == {i \in DOMAIN strings :
                             roof_to_group_map(RoofOfString(strings[i])) = straggler_group}
             r == IF straggler_group = NoGroup
                  THEN <<strings, Append(still, straggler)>>
                  ELSE AbsorbOne(strings, still, straggler, eligible)
         IN absorb_stragglers_across_similar_roofs(r[1], Tail(stragglers), r[2])

\* round(x, 1) of a value kept times 100000: the nearest tenth, as a number of
\* tenths; a value exactly between two tenths goes to the even one
round_to_tenths_floor(x) == x \div 10000

round_to_tenths(x) ==
    LET q == x \div 10000
        r == x % 10000
    IN IF r > 5000 \/ (r = 5000 /\ q % 2 = 1) THEN q + 1 ELSE q

\* _report_stragglers: one warning per proximity group of the stragglers of a
\* roof; voltage_deficit_V = round(startup_voltage - vmpp_hot * panel_count, 1),
\* kept as a number of tenths of a volt
report_stragglers(straggler_panels, roof_id) ==
    LET straggler_groups == group_panels_by_proximity(straggler_panels)
    IN [i \in DOMAIN straggler_groups |->
          [roof_id |-> roof_id,
           group_number |-> i,
           panel_count |-> Len(straggler_groups[i]),
           panel_ids |-> Ids(straggler_groups[i]),
           voltage_deficit_V |->
               round_to_tenths(inverter_specs.startup_voltage * 100000
                               - vmpp_hot(straggler_groups[i][1])
                                 * Len(straggler_groups[i]))]]

\* optimize, "Report final stragglers": the stragglers grouped by roof
RECURSIVE ReportByRoof(_, _)
ReportByRoof(roofs, unstrung) ==
    IF roofs = <<>> THEN <<>>
    ELSE report_stragglers(PanelsOfRoof(unstrung, Head(roofs)), Head(roofs))
         \o ReportByRoof(Tail(roofs), unstrung)

(***************************************************************************)
(* Rebalancing for parallel connection (stringer)                          *)
(***************************************************************************)
RemoveAt(s, k) == SubSeq(s, 1, k - 1) \o SubSeq(s, k + 1, Len(s))

\* _rebalance_string_group
rebalance_string_group(strings) ==
    \* _order_group_by_proximity, on panel ids
    LET order_group_by_proximity(group) ==
            \* min(remaining, key=distance): the first panel id at the smallest distance
            LET ClosestRemaining(current, remaining) ==
                    LET d(k) == distance(panel_lookup[current], panel_lookup[remaining[k]])
                        best == Min({d(k) : k \in DOMAIN remaining})
                    IN Min({k \in DOMAIN remaining : d(k) = best})
            IN
            LET RECURSIVE OrderLoop(_, _)
                OrderLoop(ordered, remaining) ==
                    IF remaining = <<>> THEN ordered
                    ELSE LET k == ClosestRemaining(ordered[Len(ordered)], remaining)
                         IN OrderLoop(Append(ordered, remaining[k]), RemoveAt(remaining, k))
            IN
            IF group = <<>> THEN <<>> ELSE OrderLoop(<<Head(group)>>, Tail(group))
    IN
    \* the length test of _rebalance_string_group
    LET rebalance_length_ok(new_len) ==
            new_len >= min_panels_per_string /\ new_len <= max_panels_per_string
    IN
    LET all_panels == Flatten(strings)
        total_panels == Len(all_panels)
        num_strings == Len(strings)
        fits == {i \in 2..num_strings :
                    total_panels % i = 0 /\ rebalance_length_ok(total_panels \div i)}
    IN IF num_strings < 2 \/ fits = {} THEN strings
       ELSE LET i == Min(fits)
                new_len == total_panels \div i
                ordered_panels == order_group_by_proximity(all_panels)
            IN [j \in 1..i |-> SubSeq(ordered_panels, (j - 1) * new_len + 1, j * new_len)]

\* _rebalance_strings_for_parallel: a string whose roof has no group is not
\* put into strings_by_group and is not returned
rebalance_strings_for_parallel(strings) ==
    LET RECURSIVE RebalanceGroups(_, _)
        RebalanceGroups(groups, strings0) ==
            IF groups = <<>> THEN <<>>
            ELSE rebalance_string_group(
                     SelectSeq(strings0,
                               LAMBDA st : roof_to_group_map(RoofOfString(st)) = Head(groups)))
                 \o RebalanceGroups(Tail(groups), strings0)
    IN
    \* strings_by_group: group ids in order of first appearance among the strings
    LET RECURSIVE GroupOrder(_, _)
        GroupOrder(strings0, seen) ==
            IF strings0 = <<>> THEN <<>>
            ELSE LET g == roof_to_group_map(RoofOfString(Head(strings0)))
                 IN IF g = NoGroup \/ g \in seen THEN GroupOrder(Tail(strings0), seen)
                    ELSE <<g>> \o GroupOrder(Tail(strings0), seen \cup {g})
    IN
    RebalanceGroups(GroupOrder(strings, {}), strings)

(***************************************************************************)
(* MPPT packer                                                             *)
(***************************************************************************)
\* max_parallel = int(max_dc_current_per_mppt / string_current), 1 if the
\* current is not positive
max_parallel(string_group) ==
    LET string_current == panel_lookup[string_group[1][1]].impp_stc
    IN IF string_current > 0
       THEN IntDiv(inverter_specs.max_dc_current_per_mppt, string_current)
       ELSE 1

\* for i in range(0, len(string_group), k): string_group[i:i + k]
RECURSIVE Chunks(_, _)
Chunks(items, k) ==
    LET Slice(s, from, to) == SubSeq(s, from, MinOf(to, Len(s)))
    IN
    IF items = <<>> THEN <<>>
    ELSE <<Slice(items, 1, k)>> \o Chunks(SubSeq(items, MinOf(k, Len(items)) + 1, Len(items)), k)

\* _assign_strings_to_mppts (stringer): strings of equal length, max_parallel per MPPT
assign_strings_to_mppts(strings) ==
    LET RECURSIVE PackByLength(_, _)
        PackByLength(lengths, strings0) ==
            IF lengths = <<>> THEN <<>>
            ELSE LET string_group == SelectSeq(strings0, LAMBDA st : Len(st) = Head(lengths))
                 IN Chunks(string_group, max_parallel(string_group))
                    \o PackByLength(Tail(lengths), strings0)
    IN
    \* lengths in order of first appearance (the key order of strings_by_length)
    LET RECURSIVE LengthOrder(_, _)
        LengthOrder(strings0, seen) ==
            IF strings0 = <<>> THEN <<>>
            ELSE IF Len(Head(strings0)) \in seen THEN LengthOrder(Tail(strings0), seen)
                 ELSE <<Len(Head(strings0))>> \o LengthOrder(Tail(strings0), seen \cup {Len(Head(strings0))})
    IN
    IF strings = <<>> THEN <<>> ELSE PackByLength(LengthOrder(strings, {}), strings)

\* _assign_strings_to_mppts (v2): first MPPT that accepts the string, else a new one
RECURSIVE v2_assign_strings_to_mppts(_, _)
v2_assign_strings_to_mppts(strings, acc) ==
    \* _can_add_string_to_mppt (v2): |new voltage - voltage of the first string|
    \* / voltage of the first string <= 0.05 and the summed current within the
    \* limit; a string's voltage is vmpp_hot of its first panel times its length
    LET v2_can_add_string_to_mppt(existing_mppt, new_string) ==
            LET panel == panel_lookup[existing_mppt[1][1]]
                existing_voltage == vmpp_hot(panel) * Len(existing_mppt[1])
                new_string_voltage == vmpp_hot(panel_lookup[new_string[1]]) * Len(new_string)
                diff == IF new_string_voltage >= existing_voltage
                        THEN new_string_voltage - existing_voltage
                        ELSE existing_voltage - new_string_voltage
                new_string_current == panel_lookup[new_string[1]].impp_stc
                total_current == panel.impp_stc * Len(existing_mppt) + new_string_current
            IN /\ ~(diff * 100 > 5 * existing_voltage)
               /\ ~(total_current > inverter_specs.max_dc_current_per_mppt)
    IN
    IF strings = <<>> THEN acc
    ELSE LET string == Head(strings)
             fit == {m \in DOMAIN acc : v2_can_add_string_to_mppt(acc[m], string)}
         IN IF fit # {}
            THEN v2_assign_strings_to_mppts(Tail(strings),
                                            [acc EXCEPT ![Min(fit)] = Append(@, string)])
            ELSE v2_assign_strings_to_mppts(Tail(strings), Append(acc, <<string>>))

(***************************************************************************)
(* Power validator (v2/validatePower.py); powers are times 100000          *)
(***************************************************************************)
\* PowerValidator.__init__ with target 1.25 and max 1.5
PowerValidator ==
    LET sample == panel_specs[1]
        power_per_panel ==
            sample.vmpp_stc * (100000 + 446 * (temperature_data.max_temp_c - 25))
            * sample.impp_stc
    IN [power_per_panel |-> power_per_panel,
        inverter_ac_power |-> inverter_specs.rated_ac_power_w,
        target_dc_power_per_inverter |-> inverter_specs.rated_ac_power_w * 125000,
        max_dc_power_per_inverter |-> inverter_specs.rated_ac_power_w * 150000]

NoValidator == [power_per_panel |-> 0]

calculate_string_power(pv, num_panels) == num_panels * pv.power_per_panel

\* validate_string_assignment: the result dictionary without its rounded
\* figures and its reason; recommended_split_index only when invalid
validate_string_assignment_half(pv, string_panel_count, current_inverter_dc_power) ==
    LET new_total_power ==
            current_inverter_dc_power + calculate_string_power(pv, string_panel_count)
        exceeds_target == new_total_power > pv.target_dc_power_per_inverter
        exceeds_max == new_total_power > pv.max_dc_power_per_inverter
        recommended_split == string_panel_count \div 2
    IN IF exceeds_max
       THEN [valid |-> FALSE, exceeds_target |-> exceeds_target, exceeds_max |-> exceeds_max,
             recommended_split_index |-> MaxOf(1, recommended_split),
             action |-> IF recommended_split > 0 THEN "SPLIT_STRING" ELSE "NEW_INVERTER"]
       ELSE [valid |-> TRUE, exceeds_target |-> exceeds_target, exceeds_max |-> exceeds_max,
             action |-> "CONTINUE"]
validate_string_assignment(pv, string_panel_count, current_inverter_dc_power) ==
    LET new_total_power ==
            current_inverter_dc_power + calculate_string_power(pv, string_panel_count)
        exceeds_target == new_total_power > pv.target_dc_power_per_inverter
        exceeds_max == new_total_power > pv.max_dc_power_per_inverter
        remaining_capacity == pv.max_dc_power_per_inverter - current_inverter_dc_power
        \* int(remaining_capacity / power_per_panel): towards zero
        max_panels_that_fit ==
            IF remaining_capacity >= 0 THEN remaining_capacity \div pv.power_per_panel
            ELSE -((-remaining_capacity) \div pv.power_per_panel)
        recommended_split == MinOf(string_panel_count \div 2, max_panels_that_fit)
    IN IF exceeds_max
       THEN [valid |-> FALSE, exceeds_target |-> exceeds_target, exceeds_max |-> exceeds_max,
             recommended_split_index |-> MaxOf(1, recommended_split),
             action |-> IF recommended_split > 0 THEN "SPLIT_STRING" ELSE "NEW_INVERTER"]
       ELSE [valid |-> TRUE, exceeds_target |-> exceeds_target, exceeds_max |-> exceeds_max,
             action |-> "CONTINUE"]

(***************************************************************************)
(* Inverter assigner                                                       *)
(* An inverter is [inverter_id, mppts]; its MPPTs are a sequence of        *)
(* [mppt_id, strings] in dict insertion order.                             *)
(***************************************************************************)
\* the for loop of _assign_mppts_to_inverters (stringer)
RECURSIVE AssignLoop(_, _, _, _, _)
AssignLoop(todo, inverters, inverter_counter, mppt_local_counter, max_inverters) ==
    \* the value of mppt_local_counter for the next MPPT of an inverter that
    \* already exists: the code never changes it after "mppt_local_counter = 1"
    LET next_mppt_local_counter(counter) == counter
    IN
    \* d[key] = value on a dict kept as a sequence of [mppt_id, strings]
    LET DictSet(d, key, value) ==
            IF \E k \in DOMAIN d : d[k].mppt_id = key
            THEN [k \in DOMAIN d |-> IF d[k].mppt_id = key THEN [mppt_id |-> key, strings |-> value]
                                     ELSE d[k]]
            ELSE Append(d, [mppt_id |-> key, strings |-> value])
    IN
    IF todo = <<>> \/ inverter_counter > max_inverters THEN inverters
    ELSE LET is_new == inverter_counter > Len(inverters)
             local == IF is_new THEN 1 ELSE mppt_local_counter
             opened == IF is_new
                       THEN Append(inverters, [inverter_id |-> inverter_counter, mppts |-> <<>>])
                       ELSE inverters
             mppt_id == <<inverter_counter, local>>
             placed == [opened EXCEPT ![inverter_counter].mppts =
                                          DictSet(@, mppt_id, Head(todo))]
             full == Len(placed[inverter_counter].mppts) >= inverter_specs.number_of_mppts
         IN AssignLoop(Tail(todo), placed,
                       IF full THEN inverter_counter + 1 ELSE inverter_counter,
                       next_mppt_local_counter(local), max_inverters)

assign_mppts_to_inverters_uncapped(ms) == AssignLoop(ms, <<>>, 1, 1, Len(ms) + 1)

\* _assign_mppts_to_inverters (stringer); max_inverters is unbounded with a
\* power validator
assign_mppts_to_inverters(ms) ==
    AssignLoop(ms, <<>>, 1, 1,
               IF power_validator = NoValidator THEN inverter_specs.number_of_inverters
               ELSE Len(ms) + 1)

\* _assign_mppts_to_inverters (v2): slices of number_of_mppts MPPTs, MPPT ids
\* numbered globally
v2_assign_mppts_to_inverters(ms) ==
    LET per == inverter_specs.number_of_mppts
        chunks == Chunks(ms, per)
    IN [c \in DOMAIN chunks |->
          [inverter_id |-> c,
           mppts |-> [k \in DOMAIN chunks[c] |->
                        [mppt_id |-> (c - 1) * per + k, strings |-> chunks[c][k]]]]]

\* _assign_mppts_to_inverters_with_power_validation (v2)
v2_assign_mppts_to_inverters_with_power_validation(ms) ==
    \* the for loop of _assign_mppts_to_inverters_with_power_validation (v2):
    \* cur is current_inverter_mppts, power is current_inverter_power
    LET RECURSIVE ValidatedLoop(_, _, _, _, _, _)
        ValidatedLoop(todo, inverters, inverter_counter, mppt_global_counter, cur, power) ==
            IF todo = <<>>
            THEN IF cur # <<>>
                 THEN Append(inverters, [inverter_id |-> inverter_counter, mppts |-> cur])
                 ELSE inverters
            ELSE LET mppt_strings == Head(todo)
                     mppt_panel_count == SumLens(mppt_strings)
                     mppt_power == calculate_string_power(power_validator, mppt_panel_count)
                     entry == [mppt_id |-> mppt_global_counter, strings |-> mppt_strings]
                 IN IF validate_string_assignment(power_validator, mppt_panel_count,
                                               power).valid
                    THEN LET added == Append(cur, entry)
                         IN IF Len(added) >= inverter_specs.number_of_mppts
                            THEN ValidatedLoop(Tail(todo),
                                    Append(inverters,
                                           [inverter_id |-> inverter_counter, mppts |-> added]),
                                    inverter_counter + 1, mppt_global_counter + 1, <<>>, 0)
                            ELSE ValidatedLoop(Tail(todo), inverters, inverter_counter,
                                               mppt_global_counter + 1, added, power + mppt_power)
                    ELSE IF cur # <<>>
                         THEN ValidatedLoop(Tail(todo),
                                 Append(inverters,
                                        [inverter_id |-> inverter_counter, mppts |-> cur]),
                                 inverter_counter + 1, mppt_global_counter + 1,
                                 <<entry>>, mppt_power)
                         ELSE ValidatedLoop(Tail(todo), inverters, inverter_counter,
                                            mppt_global_counter + 1, <<entry>>, mppt_power)
    IN
    ValidatedLoop(ms, <<>>, 1, 1, <<>>, 0)

(***************************************************************************)
(* Output builders                                                         *)
(***************************************************************************)
NoOutput == <<>>

RECURSIVE StringsOfInverters(_)
StringsOfInverters(inverter_structure) ==
    \* the strings of the nested structure, inverter by inverter, MPPT by MPPT
    LET RECURSIVE StringsOfMppts(_, _)
        StringsOfMppts(inverter_id, mppt_seq) ==
            IF mppt_seq = <<>> THEN <<>>
            ELSE [k \in DOMAIN Head(mppt_seq).strings |->
                    [panel_ids |-> Head(mppt_seq).strings[k],
                     inverter |-> inverter_id,
                     mppt |-> Head(mppt_seq).mppt_id]]
                 \o StringsOfMppts(inverter_id, Tail(mppt_seq))
    IN
    IF inverter_structure = <<>> THEN <<>>
    ELSE StringsOfMppts(Head(inverter_structure).inverter_id, Head(inverter_structure).mppts)
         \o StringsOfInverters(Tail(inverter_structure))

RECURSIVE SumMppts(_)
SumMppts(inverter_structure) ==
    IF inverter_structure = <<>> THEN 0
    ELSE Len(Head(inverter_structure).mppts) + SumMppts(Tail(inverter_structure))

\* _build_final_output (stringer): strings, mppt_specs and inverter_specs come
\* from inverter_structure, the summary's panel and string counts from all_strings
build_final_output(inverter_structure, strings_all) ==
    LET strings_data == StringsOfInverters(inverter_structure)
        mppt_specs == {strings_data[k].mppt : k \in DOMAIN strings_data}
    IN [connections |-> inverter_structure,
        strings |-> strings_data,
        summary |->
          [total_panels |-> Len(panel_specs),
           total_panels_stringed |-> SumLens(strings_all),
           total_strings |-> Len(strings_all),
           total_mppts_used |-> Cardinality(mppt_specs),
           total_inverters_used |-> Len(inverter_structure),
           total_straggler_panels |-> Len(panel_specs) - SumLens(strings_all)],
        straggler_warnings |-> straggler_warnings]

\* _build_formatted_output (v2)
v2_build_formatted_output(inverter_structure, strings_all) ==
    LET RECURSIVE SumPanelCount(_)
        SumPanelCount(warnings) ==
            IF warnings = <<>> THEN 0 ELSE Head(warnings).panel_count + SumPanelCount(Tail(warnings))
    IN
    [connections |-> inverter_structure,
     strings |-> [k \in DOMAIN strings_all |-> [panel_ids |-> strings_all[k]]],
     summary |->
       [total_panels |-> Len(panel_specs),
        total_panels_stringed |-> SumLens(strings_all),
        total_strings |-> Len(strings_all),
        total_mppts_used |-> SumMppts(inverter_structure),
        total_inverters_used |-> Len(inverter_structure),
        total_straggler_panels |-> SumPanelCount(straggler_warnings)],
     straggler_warnings |-> straggler_warnings]

(***************************************************************************)
(* The optimize call of the stringer, step by step                         *)
(***************************************************************************)
\* optimize, lines 245-272: no power validator, warnings reset, clusters
\* identified and sorted largest first
IdentifyClusters ==
    /\ engine = "stringer" /\ pc = "constructed"
    /\ power_validator' = NoValidator
    /\ straggler_warnings' = <<>>
    /\ all_clusters' = identify_clusters
    /\ all_strings' = <<>>
    /\ unstrung_panels' = <<>>
    /\ mppts' = <<>>
    /\ all_connections' = <<>>
    /\ pc' = "stringing"
    /\ UNCHANGED <<inputs, standalone, min_panels_per_string, max_panels_per_string,
                   ideal_panels_per_string, formatted_output, raised, runs, first_output>>

\* optimize, step 2: one iteration of "for item in all_clusters"
StringCluster ==
    /\ engine = "stringer" /\ pc = "stringing" /\ all_clusters # <<>>
    /\ \E o \in string_cluster(Head(all_clusters).cluster) :
          /\ all_strings' = all_strings \o o.strings
          /\ unstrung_panels' = unstrung_panels \o o.leftovers
    /\ all_clusters' = Tail(all_clusters)
    /\ UNCHANGED <<inputs, standalone, min_panels_per_string, max_panels_per_string,
                   ideal_panels_per_string, power_validator, straggler_warnings, pc,
                   mppts, all_connections, formatted_output, raised, runs, first_output>>

\* optimize, step 3, first pass: _absorb_stragglers
AbsorbStragglers ==
    /\ engine = "stringer" /\ pc = "stringing" /\ all_clusters = <<>>
    /\ LET r == absorb_stragglers(all_strings, unstrung_panels, <<>>)
       IN all_strings' = r[1] /\ unstrung_panels' = r[2]
    /\ pc' = "absorbed"
    /\ UNCHANGED <<inputs, standalone, min_panels_per_string, max_panels_per_string,
                   ideal_panels_per_string, power_validator, straggler_warnings,
                   all_clusters, mppts, all_connections, formatted_output, raised,
                   runs, first_output>>

\* optimize, step 3, second pass: _absorb_stragglers_across_similar_roofs
AbsorbAcrossSimilarRoofs ==
    /\ engine = "stringer" /\ pc = "absorbed"
    /\ LET r == absorb_stragglers_across_similar_roofs(all_strings, unstrung_panels, <<>>)
       IN all_strings' = r[1] /\ unstrung_panels' = r[2]
    /\ pc' = "absorbed_similar"
    /\ UNCHANGED <<inputs, standalone, min_panels_per_string, max_panels_per_string,
                   ideal_panels_per_string, power_validator, straggler_warnings,
                   all_clusters, mppts, all_connections, formatted_output, raised,
                   runs, first_output>>

\* optimize, "Report final stragglers"
ReportStragglers ==
    /\ engine = "stringer" /\ pc = "absorbed_similar"
    /\ straggler_warnings' =
          straggler_warnings \o ReportByRoof(RoofOrder(unstrung_panels, {}), unstrung_panels)
    /\ pc' = "reported"
    /\ UNCHANGED <<inputs, standalone, min_panels_per_string, max_panels_per_string,
                   ideal_panels_per_string, power_validator, all_clusters, all_strings,
                   unstrung_panels, mppts, all_connections, formatted_output, raised,
                   runs, first_output>>

\* optimize, step 4: _rebalance_strings_for_parallel
RebalanceStrings ==
    /\ engine = "stringer" /\ pc = "reported"
    /\ all_strings' = rebalance_strings_for_parallel(all_strings)
    /\ pc' = "rebalanced"
    /\ UNCHANGED <<inputs, standalone, min_panels_per_string, max_panels_per_string,
                   ideal_panels_per_string, power_validator, straggler_warnings,
                   all_clusters, unstrung_panels, mppts, all_connections,
                   formatted_output, raised, runs, first_output>>

\* optimize: mppts = self._assign_strings_to_mppts(all_strings); a parallel
\* limit of 0 makes range() raise ValueError, which leaves optimize
AssignStringsToMppts ==
    \* range() with step 0 raises ValueError
    LET packer_raises(strings) ==
            \E i \in DOMAIN strings :
                max_parallel(SelectSeq(strings, LAMBDA st : Len(st) = Len(strings[i]))) = 0
    IN
    /\ engine = "stringer" /\ pc = "rebalanced"
    /\ IF packer_raises(all_strings)
       THEN /\ raised' = "ValueError"
            /\ pc' = "failed"
            /\ mppts' = mppts
       ELSE /\ mppts' = assign_strings_to_mppts(all_strings)
            /\ pc' = "packed"
            /\ raised' = raised
    /\ UNCHANGED <<inputs, standalone, min_panels_per_string, max_panels_per_string,
                   ideal_panels_per_string, power_validator, straggler_warnings,
                   all_clusters, all_strings, unstrung_panels, all_connections,
                   formatted_output, runs, first_output>>

\* optimize: all_connections = self._assign_mppts_to_inverters(mppts)
AssignMpptsToInverters ==
    /\ engine = "stringer" /\ pc = "packed"
    /\ all_connections' = assign_mppts_to_inverters(mppts)
    /\ pc' = "assigned"
    /\ UNCHANGED <<inputs, standalone, min_panels_per_string, max_panels_per_string,
                   ideal_panels_per_string, power_validator, straggler_warnings,
                   all_clusters, all_strings, unstrung_panels, mppts, formatted_output,
                   raised, runs, first_output>>

\* optimize: formatted_result = self._build_final_output(...), return
BuildFinalOutput ==
    /\ engine = "stringer" /\ pc = "assigned"
    /\ formatted_output' = build_final_output(all_connections, all_strings)
    /\ first_output' = IF runs = 1 THEN formatted_output' ELSE first_output
    /\ pc' = "done"
    /\ UNCHANGED <<inputs, standalone, min_panels_per_string, max_panels_per_string,
                   ideal_panels_per_string, power_validator, straggler_warnings,
                   all_clusters, all_strings, unstrung_panels, mppts, all_connections,
                   raised, runs>>

(***************************************************************************)
(* The optimize call of v2, step by step                                   *)
(***************************************************************************)
\* optimize (v2), lines 263-337: the power validator is built when asked for
\* and the ideal string length is cut to what one inverter can take; the
\* warnings are reset and the panels grouped by roof plane
BeginOptimize ==
    /\ engine = "v2" /\ pc = "constructed"
    /\ IF validate_power
       THEN /\ power_validator' = PowerValidator
            /\ ideal_panels_per_string' =
                  MinOf(ideal_panels_per_string,
                        IntDiv(PowerValidator.max_dc_power_per_inverter,
                               PowerValidator.power_per_panel))
       ELSE /\ power_validator' = NoValidator
            /\ ideal_panels_per_string' = ideal_panels_per_string
    /\ straggler_warnings' = <<>>
    /\ all_clusters' = group_by_roof_plane
    /\ all_strings' = <<>>
    /\ unstrung_panels' = <<>>
    /\ mppts' = <<>>
    /\ all_connections' = <<>>
    /\ pc' = "stringing"
    /\ UNCHANGED <<inputs, standalone, min_panels_per_string, max_panels_per_string,
                   formatted_output, raised, runs, first_output>>

\* optimize (v2), step 1: one iteration of "for roof_id, panels in
\* roof_groups.items()", that is one call of _string_roof_plane, which also
\* reports the stragglers of the roof
StringRoofPlane ==
    /\ engine = "v2" /\ pc = "stringing" /\ all_clusters # <<>>
    /\ LET panels == Head(all_clusters).panels
           roof_id == Head(all_clusters).roof_id
       IN \E o \in StringLoop(panels, {panels[i].panel_id : i \in DOMAIN panels}, <<>>) :
             /\ all_strings' = all_strings \o o[1]
             /\ straggler_warnings' =
                   IF o[2] # {}
                   THEN straggler_warnings \o report_stragglers(Remaining(panels, o[2]), roof_id)
                   ELSE straggler_warnings
    /\ all_clusters' = Tail(all_clusters)
    /\ UNCHANGED <<inputs, standalone, min_panels_per_string, max_panels_per_string,
                   ideal_panels_per_string, power_validator, pc, unstrung_panels,
                   mppts, all_connections, formatted_output, raised, runs, first_output>>

\* optimize (v2), step 2: mppts = self._assign_strings_to_mppts(all_strings)
FirstFitStringsToMppts ==
    /\ engine = "v2" /\ pc = "stringing" /\ all_clusters = <<>>
    /\ mppts' = v2_assign_strings_to_mppts(all_strings, <<>>)
    /\ pc' = "packed"
    /\ UNCHANGED <<inputs, standalone, min_panels_per_string, max_panels_per_string,
                   ideal_panels_per_string, power_validator, straggler_warnings,
                   all_clusters, all_strings, unstrung_panels, all_connections,
                   formatted_output, raised, runs, first_output>>

\* optimize (v2), step 3 without validation: _assign_mppts_to_inverters
ChunkMpptsToInverters ==
    /\ engine = "v2" /\ pc = "packed" /\ ~validate_power
    /\ all_connections' = v2_assign_mppts_to_inverters(mppts)
    /\ pc' = "assigned"
    /\ UNCHANGED <<inputs, standalone, min_panels_per_string, max_panels_per_string,
                   ideal_panels_per_string, power_validator, straggler_warnings,
                   all_clusters, all_strings, unstrung_panels, mppts, formatted_output,
                   raised, runs, first_output>>

\* optimize (v2), step 3 with validation:
\* _assign_mppts_to_inverters_with_power_validation
ValidatedMpptsToInverters ==
    /\ engine = "v2" /\ pc = "packed" /\ validate_power
    /\ all_connections' = v2_assign_mppts_to_inverters_with_power_validation(mppts)
    /\ pc' = "assigned"
    /\ UNCHANGED <<inputs, standalone, min_panels_per_string, max_panels_per_string,
                   ideal_panels_per_string, power_validator, straggler_warnings,
                   all_clusters, all_strings, unstrung_panels, mppts, formatted_output,
                   raised, runs, first_output>>

\* optimize (v2): formatted_result = self._build_formatted_output(...), return
BuildFormattedOutput ==
    /\ engine = "v2" /\ pc = "assigned"
    /\ formatted_output' = v2_build_formatted_output(all_connections, all_strings)
    /\ first_output' = IF runs = 1 THEN formatted_output' ELSE first_output
    /\ pc' = "done"
    /\ UNCHANGED <<inputs, standalone, min_panels_per_string, max_panels_per_string,
                   ideal_panels_per_string, power_validator, straggler_warnings,
                   all_clusters, all_strings, unstrung_panels, mppts, all_connections,
                   raised, runs>>

(***************************************************************************)
(* Specifications                                                          *)
(***************************************************************************)
\* inverters_quantity = None
NoQuantity == -1

\* create_inverter_specs_object is not called
NoData == <<>>

\* __init__: the constraints are computed from the first panel, the inverter
\* and the temperatures; nothing has been strung yet
Constructed ==
    /\ min_panels_per_string = calc_min_panels
    /\ max_panels_per_string = calc_max_panels
    /\ ideal_panels_per_string = calc_ideal_panels
    /\ power_validator = NoValidator
    /\ straggler_warnings = <<>>
    /\ pc = "constructed"
    /\ all_clusters = <<>>
    /\ all_strings = <<>>
    /\ unstrung_panels = <<>>
    /\ mppts = <<>>
    /\ all_connections = <<>>
    /\ formatted_output = NoOutput
    /\ raised = "none"
    /\ runs = 1
    /\ first_output = NoOutput
    /\ sorted_ids = <<>>
    /\ inverters_quantity = NoQuantity
    /\ inverter_specs_data = NoData
    /\ valid_string_plans = <<>> /\ call_stack = <<>> /\ combinations = <<>>
    /\ query = <<>> /\ validation = <<>>

\* no panel sequencer is called on its own
NoSorter == panels_data = <<>> /\ method = "none"

StringerInverters == {i \in InverterChoices : i.rated_ac_power_w = 5000}

V2Inverters == {i \in InverterChoices : i.number_of_inverters = 1}

InitStringer ==
    /\ engine = "stringer"
    /\ panel_specs \in PanelLists
    /\ inverter_specs \in StringerInverters
    /\ temperature_data \in Temperatures
    /\ roof_planes \in RoofPlaneChoices
    /\ validate_power = FALSE
    /\ NoSorter
    /\ Constructed

InitV2 ==
    /\ engine = "v2"
    /\ panel_specs \in PanelLists
    /\ inverter_specs \in V2Inverters
    /\ temperature_data \in Temperatures
    /\ roof_planes = <<>>
    /\ validate_power \in BOOLEAN
    /\ NoSorter
    /\ Constructed

NextStringer ==
    \/ IdentifyClusters
    \/ StringCluster
    \/ AbsorbStragglers
    \/ AbsorbAcrossSimilarRoofs
    \/ ReportStragglers
    \/ RebalanceStrings
    \/ AssignStringsToMppts
    \/ AssignMpptsToInverters
    \/ BuildFinalOutput

NextV2 ==
    \/ BeginOptimize
    \/ StringRoofPlane
    \/ FirstFitStringsToMppts
    \/ ChunkMpptsToInverters
    \/ ValidatedMpptsToInverters
    \/ BuildFormattedOutput

SpecStringer == InitStringer /\ [][NextStringer]_vars

SpecV2 == InitV2 /\ [][NextV2]_vars

(***************************************************************************)
(* v2 on single rows of panels, long enough for four strings               *)
(***************************************************************************)
MaxRow == 15

InitRow ==
    LET RowInverters ==
            [ max_dc_voltage : {200},
              mppt_min_voltage : {60},
              mppt_max_voltage : {480},
              max_dc_current_per_mppt : {15, 20},
              number_of_mppts : {1, 2},
              startup_voltage : {60},
              rated_ac_power_w : {2100, 5000},
              number_of_inverters : {1} ]
    IN
    LET RowLists ==
            { MakePanels([i \in 1..n |-> <<60 * (i - 1), 0>>], 1000, type, 1) :
                n \in 1..MaxRow, type \in PanelTypes }
    IN
    /\ engine = "v2"
    /\ panel_specs \in RowLists
    /\ inverter_specs \in RowInverters
    /\ temperature_data \in Temperatures
    /\ roof_planes = <<>>
    /\ validate_power \in BOOLEAN
    /\ NoSorter
    /\ Constructed

SpecRow == InitRow /\ [][NextV2]_vars

(***************************************************************************)
(* A second run on identical input                                         *)
(***************************************************************************)
MaxRuns == 2

\* the caller runs the optimizer once more on the same input: the optimizer
\* is constructed again from the same panels, inverter and temperatures (the
\* order in which a set of panel ids is iterated is not fixed from one run to
\* the next)
RunAgain ==
    /\ pc = "done" /\ runs < MaxRuns
    /\ runs' = runs + 1
    /\ min_panels_per_string' = calc_min_panels
    /\ max_panels_per_string' = calc_max_panels
    /\ ideal_panels_per_string' = calc_ideal_panels
    /\ power_validator' = NoValidator
    /\ straggler_warnings' = <<>>
    /\ pc' = "constructed"
    /\ all_clusters' = <<>>
    /\ all_strings' = <<>>
    /\ unstrung_panels' = <<>>
    /\ mppts' = <<>>
    /\ all_connections' = <<>>
    /\ formatted_output' = NoOutput
    /\ UNCHANGED <<inputs, standalone, raised, first_output>>

InitRerun ==
    /\ InitStringer
    /\ DOMAIN roof_planes = {"r1", "r2"}
    /\ inverter_specs.number_of_inverters = 2

NextRerun == NextStringer \/ RunAgain

SpecRerun == InitRerun /\ [][NextRerun]_vars

Init == InitStringer \/ InitV2

Next == NextStringer \/ NextV2

\* both engines
Spec == Init /\ [][Next]_vars

(***************************************************************************)
(* Properties                                                              *)
(***************************************************************************)
\* how often a panel id occurs in a sequence of panel-id sequences
RECURSIVE Occurrences(_, _)
Occurrences(pid, seqs) ==
    IF seqs = <<>> THEN 0
    ELSE Cardinality({k \in DOMAIN Head(seqs) : Head(seqs)[k] = pid})
         + Occurrences(pid, Tail(seqs))

\* the panel-id lists of the returned plan: its strings, then its straggler
\* warnings (the plan has no disconnected warnings)
PlanStrings == [k \in DOMAIN formatted_output.strings |-> formatted_output.strings[k].panel_ids]

\* the strings found in the nested inverter -> MPPT -> string structure
NestedStrings ==
    LET found == StringsOfInverters(formatted_output.connections)
    IN [k \in DOMAIN found |-> found[k].panel_ids]

\* C1: in the plan the stringer returns without power validation every input
\* panel id is in exactly one place: one string, one straggler warning or one
\* disconnected warning
C1_PanelPartition ==
    LET PlanWarnings ==
            [k \in DOMAIN formatted_output.straggler_warnings |->
                formatted_output.straggler_warnings[k].panel_ids]
    IN
    (engine = "stringer" /\ ~validate_power /\ pc = "done") =>
        \A i \in DOMAIN panel_specs :
            Occurrences(panel_specs[i].panel_id, PlanStrings \o PlanWarnings) = 1

\* C2: every string has between min_panels_per_string and
\* max_panels_per_string panels, while the strings are built, after straggler
\* absorption, after rebalancing and in the returned plan
C2_StringLengthInWindow ==
    /\ \A k \in DOMAIN all_strings :
          /\ min_panels_per_string <= Len(all_strings[k])
          /\ Len(all_strings[k]) <= max_panels_per_string
    /\ pc = "done" =>
          \A k \in DOMAIN PlanStrings :
              /\ min_panels_per_string <= Len(PlanStrings[k])
              /\ Len(PlanStrings[k]) <= max_panels_per_string

\* C2 witness: a returned plan with a string that absorbed a straggler of
\* another roof plane and is now max_panels_per_string long
C2_Witness ==
    /\ engine = "stringer" /\ pc = "done"
    /\ \E k \in DOMAIN PlanStrings :
          /\ Len(PlanStrings[k]) = max_panels_per_string
          /\ \E a, b \in DOMAIN PlanStrings[k] :
                panel_lookup[PlanStrings[k][a]].roof_plane_id
                    # panel_lookup[PlanStrings[k][b]].roof_plane_id

\* C3: on every MPPT of a returned plan the operating currents of the parallel
\* strings sum to at most max_dc_current_per_mppt
C3_MpptCurrentWithinLimit ==
    \* the summed operating current of the strings of one MPPT
    LET RECURSIVE SumImpp(_)
        SumImpp(strings) ==
            IF strings = <<>> THEN 0
            ELSE panel_lookup[Head(strings)[1]].impp_stc + SumImpp(Tail(strings))
    IN
    pc = "done" =>
        \A i \in DOMAIN formatted_output.connections :
            \A m \in DOMAIN formatted_output.connections[i].mppts :
                SumImpp(formatted_output.connections[i].mppts[m].strings)
                    <= inverter_specs.max_dc_current_per_mppt

\* C4: every inverter of a returned plan holds at most number_of_mppts MPPTs,
\* with and without power validation, also after a rejected MPPT opened a new
\* inverter
C4_InverterMpptCount ==
    pc = "done" =>
        \A i \in DOMAIN formatted_output.connections :
            Len(formatted_output.connections[i].mppts) <= inverter_specs.number_of_mppts

\* C5: with power validation every inverter of the returned plan carries a DC
\* power (power_per_panel times its panels) of at most rated_ac_power * 1.5
C5_InverterPowerWithinMax ==
    \* the number of panels on all MPPTs of an inverter
    LET RECURSIVE PanelsOfInverter(_)
        PanelsOfInverter(mppt_seq) ==
            IF mppt_seq = <<>> THEN 0
            ELSE SumLens(Head(mppt_seq).strings) + PanelsOfInverter(Tail(mppt_seq))
    IN
    (pc = "done" /\ validate_power) =>
        \A i \in DOMAIN formatted_output.connections :
            calculate_string_power(power_validator,
                                   PanelsOfInverter(formatted_output.connections[i].mppts))
                <= power_validator.max_dc_power_per_inverter

\* C6: without power validation, when the packer produced more MPPTs than
\* number_of_mppts * number_of_inverters, the output has disconnected warnings
\* that list every panel of every MPPT left off the inverters, with a reason
\* saying that no MPPT slot was available, and a positive
\* total_disconnected_panels
C6_OverflowReported ==
    \* the panels of the MPPTs that are on no inverter of the returned plan
    LET UnplacedPanels ==
            {pid \in Range(Flatten(Flatten(mppts))) : Occurrences(pid, NestedStrings) = 0}
    IN
    (pc = "done" /\ ~validate_power
       /\ Len(mppts) > inverter_specs.number_of_mppts * inverter_specs.number_of_inverters) =>
        /\ "disconnected_warnings" \in DOMAIN formatted_output
        /\ "total_disconnected_panels" \in DOMAIN formatted_output.summary
        /\ formatted_output.summary.total_disconnected_panels > 0
        /\ \A pid \in UnplacedPanels :
              \E w \in DOMAIN formatted_output.disconnected_warnings :
                  /\ pid \in Range(formatted_output.disconnected_warnings[w].panel_ids)
                  /\ formatted_output.disconnected_warnings[w].reason
                        = "Inverter capacity limit reached - no available MPPT slots"

\* C7: without power validation a returned plan uses at most
\* number_of_inverters inverters and at most number_of_mppts *
\* number_of_inverters MPPTs
C7_InverterCapRespected ==
    (pc = "done" /\ ~validate_power) =>
        /\ Len(formatted_output.connections) <= inverter_specs.number_of_inverters
        /\ SumMppts(formatted_output.connections)
              <= inverter_specs.number_of_mppts * inverter_specs.number_of_inverters

\* C8: the panels, strings and MPPTs counted in the nested inverter -> MPPT ->
\* string structure equal the summary's total_panels_stringed, total_strings
\* and total_mppts_used
C8_SummaryMatchesNested ==
    pc = "done" =>
        /\ formatted_output.summary.total_panels_stringed = SumLens(NestedStrings)
        /\ formatted_output.summary.total_strings = Len(NestedStrings)
        /\ formatted_output.summary.total_mppts_used
              = SumMppts(formatted_output.connections)

\* C9: a second run on identical input returns the plan the first run returned
C9_SecondRunSamePlan ==
    (pc = "done" /\ runs = 2) => formatted_output = first_output

\* C10: when the computed maximum string length is below the computed minimum
\* the optimizer does not return a plan; it reports an error to the caller
C10_InfeasibleWindowIsFatal ==
    (max_panels_per_string < min_panels_per_string /\ pc \in {"done", "failed"}) =>
        (pc = "failed" /\ raised # "none")

\* the panel ids of the proximity clusters of the roofs that are smaller than
\* min_panels_per_string
SmallClusters ==
    { Range(Ids(identify_clusters[c].cluster)) :
        c \in {d \in DOMAIN identify_clusters :
                  Len(identify_clusters[d].cluster) < min_panels_per_string} }

\* startup_voltage - n * Vmpp_hot for the n panels of a cluster, times 100000
ExactDeficit(cluster_ids) ==
    inverter_specs.startup_voltage * 100000
    - vmpp_hot(panel_lookup[Min(cluster_ids)]) * Cardinality(cluster_ids)

\* the straggler warnings of the plan that name a panel of the cluster
WarningsOf(cluster_ids) ==
    {w \in DOMAIN formatted_output.straggler_warnings :
        Range(formatted_output.straggler_warnings[w].panel_ids) \cap cluster_ids # {}}

\* no string absorbed a panel of the cluster: the two absorption passes of
\* the stringer left every panel of it unstrung (v2 has no absorption)
NoneAbsorbed(cluster_ids) ==
    engine = "stringer" => cluster_ids \subseteq Range(Ids(unstrung_panels))

\* a cluster below the minimum has yielded no string when the stringing loop
\* is over, and, when no string absorbed a panel of it, the plan warns about it
\* once, naming exactly its panels
SmallClusterOneWarning ==
    \* no string holds a panel of the cluster
    LET NoStringFrom(cluster_ids) ==
            \A k \in DOMAIN all_strings : Range(all_strings[k]) \cap cluster_ids = {}
    IN
    /\ (pc = "stringing" /\ all_clusters = <<>>) =>
          \A cl \in SmallClusters : NoStringFrom(cl)
    /\ pc = "done" =>
          \A cl \in SmallClusters :
              NoneAbsorbed(cl) =>
                  /\ Cardinality(WarningsOf(cl)) = 1
                  /\ \A w \in WarningsOf(cl) :
                        /\ Range(formatted_output.straggler_warnings[w].panel_ids) = cl
                        /\ formatted_output.straggler_warnings[w].panel_count
                              = Cardinality(cl)
                        /\ Len(formatted_output.straggler_warnings[w].panel_ids)
                              = Cardinality(cl)

\* C11 as stated: a cluster of n < min_panels_per_string panels that no string
\* absorbs yields zero strings and exactly one straggler warning that names
\* its n panels and whose voltage deficit equals startup_voltage - n * Vmpp_hot
C11_DeficitExact ==
    /\ SmallClusterOneWarning
    /\ pc = "done" =>
          \A cl \in SmallClusters :
              NoneAbsorbed(cl) =>
                  \A w \in WarningsOf(cl) :
                      formatted_output.straggler_warnings[w].voltage_deficit_V * 10000
                          = ExactDeficit(cl)

\* C11 amended: ... and whose voltage deficit is startup_voltage - n * Vmpp_hot
\* rounded to one decimal, that is within 0.05 V of it
C11_DeficitRounded ==
    /\ SmallClusterOneWarning
    /\ pc = "done" =>
          \A cl \in SmallClusters :
              NoneAbsorbed(cl) =>
                  \A w \in WarningsOf(cl) :
                      LET d == formatted_output.straggler_warnings[w].voltage_deficit_V
                                  * 10000 - ExactDeficit(cl)
                      IN -5000 <= d /\ d <= 5000

\* C11 witness: a returned plan with a cluster of two panels, below the
\* minimum of three, that no string absorbed and that has its warning
C11_Witness ==
    /\ pc = "done"
    /\ min_panels_per_string = 3
    /\ \E cl \in SmallClusters :
          /\ Cardinality(cl) = 2
          /\ NoneAbsorbed(cl)
          /\ WarningsOf(cl) # {}
          /\ Len(formatted_output.strings) > 0

(***************************************************************************)
(* Panel sequencers: GuidedPCASorter (src/stringer/guided_pca_sorting.py)  *)
(* and the row snake of SolarStringingOptimizer.  Coordinates along an     *)
(* axis are kept multiplied by the length of the edge the axis comes from, *)
(* so that they stay whole numbers.                                        *)
(***************************************************************************)
MaxSorted == 4

Reverse(s) == [i \in 1..Len(s) |-> s[Len(s) + 1 - i]]

Abs(x) == IF x < 0 THEN -x ELSE x

dot(a, b) == a[1] * b[1] + a[2] * b[2]

\* _parse_panel_geometry
parse_panel_geometry(data) ==
    [i \in DOMAIN data |->
        [panel_id |-> data[i].panel_id, center |-> data[i].c0,
         corners |-> <<data[i].c1, data[i].c2>>]]

NoAxes == <<>>

\* _extract_panel_edge_axes: the two centre-to-corner edges, each once as the
\* stringing axis; None when an edge is shorter than 0.1
extract_panel_edge_axes(panel) ==
    LET edge1 == <<panel.corners[1][1] - panel.center[1],
                   panel.corners[1][2] - panel.center[2]>>
        edge2 == <<panel.corners[2][1] - panel.center[1],
                   panel.corners[2][2] - panel.center[2]>>
    IN IF dot(edge1, edge1) = 0 \/ dot(edge2, edge2) = 0 THEN NoAxes
       ELSE << [u_axis |-> edge1, v_axis |-> edge2],
               [u_axis |-> edge2, v_axis |-> edge1] >>

RECURSIVE SortByIndex(_, _, _)
SortByIndex(items, sorted, k) ==
    \* list.sort / sorted on the k-th component of tuples: stable, ascending
    LET RECURSIVE InsertByIndex(_, _, _)
        InsertByIndex(sorted0, item, k0) ==
            IF sorted0 = <<>> THEN <<item>>
            ELSE IF Head(sorted0)[k0] <= item[k0]
                 THEN <<Head(sorted0)>> \o InsertByIndex(Tail(sorted0), item, k0)
                 ELSE <<item>> \o sorted0
    IN
    IF items = <<>> THEN sorted
    ELSE SortByIndex(Tail(items), InsertByIndex(sorted, Head(items), k), k)

\* _sort_panels_by_axes
sort_panels_by_axes(panels, u_axis, v_axis) ==
    \* rows.sort(key=mean of v): stable, ascending; means compared as fractions
    LET RECURSIVE InsertByMean(_, _)
        InsertByMean(sorted, row) ==
            LET RECURSIVE SumV(_)
                SumV(row0) == IF row0 = <<>> THEN 0 ELSE Head(row0)[3] + SumV(Tail(row0))
            IN
            IF sorted = <<>> THEN <<row>>
            ELSE IF SumV(Head(sorted)) * Len(row) <= SumV(row) * Len(Head(sorted))
                 THEN <<Head(sorted)>> \o InsertByMean(Tail(sorted), row)
                 ELSE <<row>> \o sorted
    IN
    \* _cluster_into_rows; v_len is the factor the v coordinates are multiplied by
    LET cluster_into_rows(panel_coords, v_len) ==
            \* the loop of _cluster_into_rows over the panels sorted by v: a panel joins
            \* the current row when its v is within the threshold of the panel before it
            LET RECURSIVE RowLoop(_, _, _, _)
                RowLoop(sorted_by_v, rows, current_row, limit) ==
                    IF sorted_by_v = <<>> THEN Append(rows, current_row)
                    ELSE LET prev_v == current_row[Len(current_row)][3]
                             curr_v == Head(sorted_by_v)[3]
                         IN IF Abs(curr_v - prev_v) <= limit
                            THEN RowLoop(Tail(sorted_by_v), rows,
                                         Append(current_row, Head(sorted_by_v)), limit)
                            ELSE RowLoop(Tail(sorted_by_v), Append(rows, current_row),
                                         <<Head(sorted_by_v)>>, limit)
            IN
            IF panel_coords = <<>> THEN <<>>
            ELSE LET row_threshold == IF Len(panel_coords) < 12 THEN 50
                                      ELSE IF Len(panel_coords) < 24 THEN 35 ELSE 25
                     sorted_by_v == SortByIndex(panel_coords, <<>>, 3)
                 IN RowLoop(Tail(sorted_by_v), <<>>, <<Head(sorted_by_v)>>,
                            row_threshold * v_len)
    IN
    \* the snake loop of _sort_panels_by_axes: each row by u, odd rows reversed
    LET RECURSIVE SnakeRows(_, _)
        SnakeRows(rows, row_idx) ==
            IF rows = <<>> THEN <<>>
            ELSE LET by_u == SortByIndex(Head(rows), <<>>, 2)
                     row == IF row_idx % 2 = 1 THEN Reverse(by_u) ELSE by_u
                 IN [i \in DOMAIN row |-> row[i][1]] \o SnakeRows(Tail(rows), row_idx + 1)
    IN
    LET RECURSIVE SortByMean(_, _)
        SortByMean(rows, sorted) ==
            IF rows = <<>> THEN sorted
            ELSE SortByMean(Tail(rows), InsertByMean(sorted, Head(rows)))
    IN
    \* np.linalg.norm of a vector whose length is a whole number
    LET norm(v) == CHOOSE r \in 0..(Abs(v[1]) + Abs(v[2])) : r * r = v[1] * v[1] + v[2] * v[2]
    IN
    LET panel_coords == [i \in DOMAIN panels |->
                            <<panels[i].panel_id, dot(panels[i].center, u_axis),
                              dot(panels[i].center, v_axis)>>]
        rows == SortByMean(cluster_into_rows(panel_coords, norm(v_axis)), <<>>)
    IN SnakeRows(rows, 0)

\* the loop of _count_direction_changes; prev = <<0, 0>> stands for None
RECURSIVE ChangesLoop(_, _, _, _, _)
ChangesLoop(panels, ordered_ids, i, prev, changes) ==
    \* the centre of the panel with the given id (a dict: the last one wins)
    LET CenterOf(panels0, pid) ==
            panels0[Max({i0 \in DOMAIN panels0 : panels0[i0].panel_id = pid})].center
    IN
    \* the path turns by more than 45 degrees between two steps
    LET TurnsOver45(a, b) ==
            dot(a, b) <= 0 \/ 2 * dot(a, b) * dot(a, b) < dot(a, a) * dot(b, b)
    IN
    IF i >= Len(ordered_ids) THEN changes
    ELSE LET p1 == CenterOf(panels, ordered_ids[i])
             p2 == CenterOf(panels, ordered_ids[i + 1])
             direction == <<p2[1] - p1[1], p2[2] - p1[2]>>
         IN IF direction = <<0, 0>>
            THEN ChangesLoop(panels, ordered_ids, i + 1, prev, changes)
            ELSE ChangesLoop(panels, ordered_ids, i + 1, direction,
                             IF prev # <<0, 0>> /\ TurnsOver45(prev, direction)
                             THEN changes + 1 ELSE changes)

count_direction_changes(panels, ordered_ids) ==
    IF Len(ordered_ids) < 2 THEN 0
    ELSE ChangesLoop(panels, ordered_ids, 1, <<0, 0>>, 0)

dist2(a, b) == (b[1] - a[1]) * (b[1] - a[1]) + (b[2] - a[2]) * (b[2] - a[2])

\* the while loop of _sort_using_nearest_neighbor
RECURSIVE NearestLoop(_, _, _)
NearestLoop(current, remaining, ids) ==
    \* distances.sort() on (distance, panel) tuples: two different panels at the
    \* same distance are compared with <, which PanelGeometry does not support
    LET sort_raises(current0, remaining0) ==
            \E i, j \in DOMAIN remaining0 :
                /\ i # j
                /\ remaining0[i] # remaining0[j]
                /\ dist2(current0.center, remaining0[i].center)
                      = dist2(current0.center, remaining0[j].center)
    IN
    IF remaining = <<>> THEN [error |-> "none", ids |-> ids]
    ELSE IF sort_raises(current, remaining) THEN [error |-> "TypeError", ids |-> <<>>]
    ELSE LET k == CHOOSE i \in DOMAIN remaining :
                     \A j \in DOMAIN remaining :
                         dist2(current.center, remaining[i].center)
                            <= dist2(current.center, remaining[j].center)
         IN NearestLoop(remaining[k], RemoveAt(remaining, k),
                        Append(ids, remaining[k].panel_id))

\* _sort_using_nearest_neighbor
sort_using_nearest_neighbor(panels) ==
    IF panels = <<>> THEN [error |-> "none", ids |-> <<>>]
    ELSE NearestLoop(Head(panels), Tail(panels), <<Head(panels).panel_id>>)

\* sort_panels_for_stringing
sort_panels_for_stringing(data, how) ==
    IF data = <<>> THEN [error |-> "none", ids |-> <<>>]
    ELSE IF Len(data) = 1 THEN [error |-> "none", ids |-> <<data[1].panel_id>>]
    ELSE LET panels == parse_panel_geometry(data)
         IN IF how = "guided_pca"
            THEN LET edge_axes == extract_panel_edge_axes(panels[1])
                 IN IF edge_axes = NoAxes THEN sort_using_nearest_neighbor(panels)
                    ELSE LET result_1 == sort_panels_by_axes(panels, edge_axes[1].u_axis,
                                                             edge_axes[1].v_axis)
                             result_2 == sort_panels_by_axes(panels, edge_axes[2].u_axis,
                                                             edge_axes[2].v_axis)
                         IN [error |-> "none",
                             ids |-> IF count_direction_changes(panels, result_1)
                                          <= count_direction_changes(panels, result_2)
                                     THEN result_1 ELSE result_2]
            ELSE sort_using_nearest_neighbor(panels)

\* sorted(..., reverse=True) on the distinct y coordinates
RECURSIVE SortSetDesc(_)
SortSetDesc(S) == IF S = {} THEN <<>> ELSE <<Max(S)>> \o SortSetDesc(S \ {Max(S)})

\* the loop of _sort_panels_snake_pattern over the rows: each row sorted by x,
\* every second one reversed
RECURSIVE SnakeByY(_, _, _)
SnakeByY(panels, ys, i) ==
    IF ys = <<>> THEN <<>>
    ELSE LET row_panels == SelectSeq(panels, LAMBDA p : p.center_coords[2] = Head(ys))
             by_x == SortByIndex([k \in DOMAIN row_panels |->
                                     <<row_panels[k], row_panels[k].center_coords[1]>>],
                                 <<>>, 2)
             row == IF i % 2 = 0 THEN by_x ELSE Reverse(by_x)
         IN [k \in DOMAIN row |-> row[k][1]] \o SnakeByY(panels, Tail(ys), i + 1)

sort_panels_snake_pattern_lowest_first(panels) ==
    SnakeByY(panels, Reverse(SortSetDesc({panels[i].center_coords[2] : i \in DOMAIN panels})), 0)

\* SolarStringingOptimizer._sort_panels_snake_pattern: rows by exact y, the
\* highest y first
sort_panels_snake_pattern(panels) ==
    SnakeByY(panels, SortSetDesc({panels[i].center_coords[2] : i \in DOMAIN panels}), 0)

\* a caller runs sort_panels_guided_pca on the panels
SortPanelsForStringing ==
    /\ engine = "sorter" /\ pc = "constructed"
    /\ LET r == sort_panels_for_stringing(panels_data, method)
       IN sorted_ids' = r.ids /\ raised' = r.error
    /\ pc' = "sorted"
    /\ UNCHANGED <<inputs, panels_data, method, inverters_quantity, inverter_specs_data,
                   valid_string_plans, call_stack, combinations, query, validation,
                   min_panels_per_string,
                   max_panels_per_string, ideal_panels_per_string, power_validator,
                   straggler_warnings, all_clusters, all_strings, unstrung_panels,
                   mppts, all_connections, formatted_output, runs, first_output>>

\* a caller runs _sort_panels_snake_pattern on the panels; sorted_ids keeps the
\* ids of the panels it returns
SortPanelsSnakePattern ==
    /\ engine = "sorter" /\ pc = "constructed"
    /\ sorted_ids' = Ids(sort_panels_snake_pattern(panel_specs))
    /\ pc' = "sorted"
    /\ UNCHANGED <<inputs, panels_data, method, inverters_quantity, inverter_specs_data,
                   valid_string_plans, call_stack, combinations, query, validation,
                   min_panels_per_string,
                   max_panels_per_string, ideal_panels_per_string, power_validator,
                   straggler_warnings, all_clusters, all_strings, unstrung_panels,
                   mppts, all_connections, formatted_output, raised, runs,
                   first_output>>

SorterInverters ==
    {i \in StringerInverters :
        /\ i.max_dc_voltage = 240 /\ i.max_dc_current_per_mppt = 15
        /\ i.number_of_mppts = 2 /\ i.number_of_inverters = 1}

InitSorter ==
    \* centres for the sequencers: columns 60 apart, rows at y = 0, 40 and 110
    LET SorterCells == << <<0, 0>>, <<60, 0>>, <<120, 0>>,
                          <<0, 40>>, <<60, 40>>, <<120, 40>>,
                          <<0, 110>>, <<60, 110>>, <<120, 110>> >>
    IN
    LET SorterMethods == {"guided_pca", "nearest_neighbor"}
    IN
    \* the auto-design panel dictionaries of a panel list
    LET MakePanelsData(panels, corners) ==
            [i \in DOMAIN panels |->
                [panel_id |-> panels[i].panel_id,
                 c0 |-> panels[i].center_coords,
                 c1 |-> <<panels[i].center_coords[1] + corners[1][1],
                          panels[i].center_coords[2] + corners[1][2]>>,
                 c2 |-> <<panels[i].center_coords[1] + corners[2][1],
                          panels[i].center_coords[2] + corners[2][2]>>]]
    IN
    \* c1 - c0 and c2 - c0 of every panel: upright, lying, turned, or all corners
    \* on the centre
    LET CornerChoices ==
            { << <<30, 0>>, <<0, 20>> >>, << <<0, 20>>, <<30, 0>> >>,
              << <<18, 24>>, <<-16, 12>> >>, << <<0, 0>>, <<0, 0>> >> }
    IN
    LET SorterPanelLists ==
            \* up to MaxSorted of the centres, listed in the order above or backwards
            LET SorterLayouts ==
                    LET chosen == {S \in SUBSET Range(SorterCells) :
                                      Cardinality(S) >= 1 /\ Cardinality(S) <= MaxSorted}
                    IN {SelectInOrder(SorterCells, S) : S \in chosen}
                       \cup {Reverse(SelectInOrder(SorterCells, S)) : S \in chosen}
            IN
            { MakePanels(cells, 1000, type, 1) : cells \in SorterLayouts, type \in PanelTypes }
    IN
    /\ engine = "sorter"
    /\ panel_specs \in SorterPanelLists
    /\ panels_data \in {MakePanelsData(panel_specs, c) : c \in CornerChoices}
    /\ method \in SorterMethods
    /\ inverter_specs \in SorterInverters
    /\ temperature_data \in Temperatures
    /\ roof_planes = <<>>
    /\ validate_power = FALSE
    /\ Constructed

NextSorter == SortPanelsForStringing \/ SortPanelsSnakePattern

SpecSorter == InitSorter /\ [][NextSorter]_vars

\* a sequence of ids holds every id of the panel list once and nothing else
IsPermutationOf(ids, panels) ==
    /\ Len(ids) = Len(panels)
    /\ \A i \in DOMAIN panels : Occurrences(panels[i].panel_id, <<ids>>) = 1

\* C12: every sequencing strategy (nearest neighbour, row snake, panel-edge
\* axes, the nearest-neighbour fallback) returns a permutation of the ids of
\* the panels it was given: each id once and no other id
C12_SequencerReturnsPermutation ==
    pc = "sorted" => raised = "none" /\ IsPermutationOf(sorted_ids, panel_specs)

(***************************************************************************)
(* Several optimize calls on one v2 optimizer object.  The first call is   *)
(* made without power validation, the later ones with either option.       *)
(***************************************************************************)
MaxCalls == 3

InitReuse ==
    LET ReusedInverters ==
            {i \in V2Inverters :
                i.max_dc_voltage = 240 /\ i.max_dc_current_per_mppt = 15 /\ i.number_of_mppts = 2}
    IN
    \* single rows of panels: the nearest neighbour is unique at every step
    LET ReusedRowLists ==
            { MakePanels([i \in 1..n |-> <<60 * (i - 1), 0>>], 1000, type, 1) :
                n \in 1..MaxPanels, type \in PanelTypes }
    IN
    /\ engine = "v2"
    /\ panel_specs \in ReusedRowLists
    /\ inverter_specs \in ReusedInverters
    /\ temperature_data \in Temperatures
    /\ roof_planes = <<>>
    /\ validate_power = FALSE
    /\ NoSorter
    /\ Constructed

\* the caller calls optimize once more on the same object: the attributes of
\* the object stay as the call before left them
OptimizeAgain ==
    /\ engine = "v2" /\ pc = "done" /\ runs < MaxCalls
    /\ runs' = runs + 1
    /\ validate_power' \in BOOLEAN
    /\ formatted_output' = NoOutput
    /\ pc' = "constructed"
    /\ UNCHANGED <<engine, panel_specs, inverter_specs, temperature_data, roof_planes,
                   standalone, min_panels_per_string, max_panels_per_string,
                   ideal_panels_per_string, power_validator, straggler_warnings,
                   all_clusters, all_strings, unstrung_panels, mppts, all_connections,
                   raised, first_output>>

NextReuse == NextV2 \/ OptimizeAgain

SpecReuse == InitReuse /\ [][NextReuse]_vars

\* C13: the plan optimize returns does not depend on the optimize calls made
\* on the same object before: a later call without power validation returns
\* the plan the first call, made without power validation on the fresh
\* object, returned
C13_PlanIndependentOfEarlierCalls ==
    (pc = "done" /\ runs > 1 /\ ~validate_power) => formatted_output = first_output

(***************************************************************************)
(* The caller's objects: construction of the stringer followed by optimize *)
(* without override_inv_quantity.  self.panel_specs, self.inverter_specs   *)
(* and self.temperature_data are the objects the caller passed.            *)
(***************************************************************************)
MaxCallerPanels == 6

\* no optimizer object exists yet
NotConstructed ==
    /\ min_panels_per_string = 0
    /\ max_panels_per_string = 0
    /\ ideal_panels_per_string = 0
    /\ power_validator = NoValidator
    /\ straggler_warnings = <<>>
    /\ pc = "new"
    /\ all_clusters = <<>>
    /\ all_strings = <<>>
    /\ unstrung_panels = <<>>
    /\ mppts = <<>>
    /\ all_connections = <<>>
    /\ formatted_output = NoOutput
    /\ raised = "none"
    /\ runs = 1
    /\ first_output = NoOutput
    /\ sorted_ids = <<>>

InitCaller ==
    LET Quantities == {NoQuantity, 1, 2, 3}
    IN
    LET CallerInverters ==
            {i \in StringerInverters : i.max_dc_current_per_mppt = 15}
    IN
    \* panel lists with distinct ids, and the same with one id used twice
    LET CallerPanelLists ==
            LET CallerLayouts ==
                    LET cells == SubSeq(CellSeq, 1, MinOf(MaxCallerPanels, Len(CellSeq)))
                    IN { SelectInOrder(cells, S) : S \in (SUBSET Range(cells)) \ {{}} }
            IN
            \* the panel list with the id of the first panel given to panel k as well
            LET WithDuplicate(panels, k) ==
                    [i \in DOMAIN panels |->
                        IF i = k THEN [panels[i] EXCEPT !.panel_id = panels[1].panel_id] ELSE panels[i]]
            IN
            LET distinct == { MakePanels(cells, split, type, 1) :
                                cells \in CallerLayouts, split \in RoofSplits, type \in PanelTypes }
            IN distinct \cup { WithDuplicate(ps, k) : ps \in distinct, k \in 2..MaxCallerPanels }
    IN
    /\ engine = "stringer"
    /\ panel_specs \in CallerPanelLists
    /\ inverter_specs \in CallerInverters
    /\ temperature_data \in Temperatures
    /\ roof_planes \in {r \in RoofPlaneChoices : DOMAIN r = {"r1", "r2"}}
    /\ validate_power = FALSE
    /\ inverters_quantity \in Quantities
    /\ NoSorter
    /\ inverter_specs_data = NoData
    /\ valid_string_plans = <<>> /\ call_stack = <<>> /\ combinations = <<>>
    /\ query = <<>> /\ validation = <<>>
    /\ NotConstructed

\* SimpleStringingOptimizer.__init__ (stringer): inverters_quantity is written
\* into the inverter object, then the voltage constraints are computed
Construct ==
    /\ engine = "stringer" /\ pc = "new"
    /\ UNCHANGED <<engine, panel_specs, temperature_data, roof_planes, validate_power,
                   standalone, power_validator, straggler_warnings, all_clusters,
                   all_strings, unstrung_panels, mppts, all_connections,
                   formatted_output, raised, runs, first_output>>
    /\ inverter_specs' =
          IF inverters_quantity # NoQuantity
          THEN [inverter_specs EXCEPT !.number_of_inverters = inverters_quantity]
          ELSE inverter_specs
    /\ min_panels_per_string' = calc_min_panels'
    /\ max_panels_per_string' = calc_max_panels'
    /\ ideal_panels_per_string' = calc_ideal_panels'
    /\ pc' = "constructed"

NextCaller == Construct \/ NextStringer

SpecCaller == InitCaller /\ [][NextCaller]_vars

\* C14: constructing an optimizer and running an optimization never modifies
\* the panel, inverter or temperature objects of the caller: every step
\* leaves every field of them as it was
C14_CallerObjectsUntouched ==
    [][/\ panel_specs' = panel_specs
       /\ inverter_specs' = inverter_specs
       /\ temperature_data' = temperature_data]_vars

\* C15: a panel list in which two panels share a panel_id is rejected with an
\* error before any plan is produced: the optimizer never gets as far as a
\* returned plan with such a list
C15_DuplicateIdsRejected ==
    LET HasDuplicateIds(panels) ==
            \E i, j \in DOMAIN panels : i # j /\ panels[i].panel_id = panels[j].panel_id
    IN
    HasDuplicateIds(panel_specs) => pc # "done"

MaxGrid == 3

\* the centres of an R x C grid, row by row from the top
GridCells(R, C, px, py) ==
    [k \in 1..(R * C) |-> <<100 + ((k - 1) % C) * px, 200 - ((k - 1) \div C) * py>>]

InitSnake ==
    LET GridPitches == {50, 60}
    IN
    LET GridLists ==
            \* the same centres listed column by column
            LET ColumnMajor(cells, R, C) ==
                    [k \in 1..(R * C) |-> cells[((k - 1) % R) * C + ((k - 1) \div R) + 1]]
            IN
            LET grids == UNION { { GridCells(R, C, px, py),
                                   Reverse(GridCells(R, C, px, py)),
                                   ColumnMajor(GridCells(R, C, px, py), R, C) } :
                                 R \in 1..MaxGrid, C \in 1..MaxGrid,
                                 px \in GridPitches, py \in GridPitches }
            IN { MakePanels(cells, 1000, type, 1) : cells \in grids, type \in PanelTypes }
    IN
    /\ engine = "sorter"
    /\ panel_specs \in GridLists
    /\ panels_data = <<>>
    /\ method = "none"
    /\ inverter_specs \in SorterInverters
    /\ temperature_data \in Temperatures
    /\ roof_planes = <<>>
    /\ validate_power = FALSE
    /\ Constructed

NextSnake == SortPanelsSnakePattern

SpecSnake == InitSnake /\ [][NextSnake]_vars

\* C17: on a regular grid the snake sequencer visits the rows from the top
\* row to the bottom row, the top row from left to right and every following
\* row against the direction of the row before it
C17_SnakeOrderOnGrid ==
    \* the x coordinates of the grid from left to right and its y coordinates
    \* from the top row down
    LET GridColumns == Reverse(SortSetDesc({panel_specs[i].center_coords[1] : i \in DOMAIN panel_specs}))
    IN
    \* the centre the snake has to visit at step k (from 0): row k div C, from the
    \* left in rows 0, 2, ... and from the right in rows 1, 3, ...
    LET SnakeCentre(k) ==
            LET GridRows == SortSetDesc({panel_specs[i].center_coords[2] : i \in DOMAIN panel_specs})
            IN
            LET C == Len(GridColumns)
                row == k \div C
                col == IF row % 2 = 0 THEN k % C ELSE C - 1 - (k % C)
            IN <<GridColumns[col + 1], GridRows[row + 1]>>
    IN
    pc = "sorted" =>
        /\ Len(sorted_ids) = Len(panel_specs)
        /\ \A k \in DOMAIN sorted_ids :
              panel_lookup[sorted_ids[k]].center_coords = SnakeCentre(k - 1)

\* C17 witness: the 3 x 3 grid of the test, listed row by row, is visited in
\* the order (0,0),(0,1),(0,2),(1,2),(1,1),(1,0),(2,0),(2,1),(2,2)
C17_Witness ==
    /\ pc = "sorted"
    /\ Ids(panel_specs) = <<1, 2, 3, 4, 5, 6, 7, 8, 9>>
    /\ [i \in DOMAIN panel_specs |-> panel_specs[i].center_coords] = GridCells(3, 3, 50, 50)
    /\ sorted_ids = <<1, 2, 3, 6, 5, 4, 7, 8, 9>>

(***************************************************************************)
(* create_inverter_specs_object (src/data_parsers.py).  A dictionary is a  *)
(* function from its keys to its values; PyNone stands for None.           *)
(***************************************************************************)
PyNone == -1

\* specifications without ratedACPowerW, with ratedACPowerW = None and with a
\* rated AC power
Specifications ==
    LET WithEntry(d, key, value) ==
            [k \in DOMAIN d \cup {key} |-> IF k = key THEN value ELSE d[k]]
    IN
    \* an inverter specification without a ratedACPowerW entry
    LET BaseSpecification(keys, voltage, mppt_count) ==
            LET value == [max_dc_voltage |-> voltage, number_of_mppts |-> mppt_count,
                          startup_voltage |-> 60, max_dc_current_per_mppt |-> 15,
                          max_dc_current_per_string |-> 15, mppt_min_voltage |-> 60,
                          mppt_max_voltage |-> 480]
            IN [k \in {keys[f] : f \in DOMAIN keys} |->
                   value[CHOOSE f \in DOMAIN keys : keys[f] = k]]
    IN
    LET SnakeKeys ==
            [max_dc_voltage |-> "max_dc_input_voltage", number_of_mppts |-> "number_of_mppts",
             startup_voltage |-> "startup_voltage",
             max_dc_current_per_mppt |-> "max_dc_input_current_per_mppt",
             max_dc_current_per_string |-> "max_dc_input_current_per_string",
             mppt_min_voltage |-> "mppt_operating_voltage_min_range",
             mppt_max_voltage |-> "mppt_operating_voltage_max_range"]
    IN
    \* the keys of the request format and the keys parse_inverter_specs_csv makes
    LET CamelKeys ==
            [max_dc_voltage |-> "maxDCInputVoltage", number_of_mppts |-> "numberOfMPPTs",
             startup_voltage |-> "startUpVoltage",
             max_dc_current_per_mppt |-> "maxDCInputCurrentPerMPPT",
             max_dc_current_per_string |-> "maxDCInputCurrentPerString",
             mppt_min_voltage |-> "mpptOperatingVoltageMinRange",
             mppt_max_voltage |-> "mpptOperatingVoltageMaxRange"]
    IN
    LET bases == { BaseSpecification(keys, voltage, mppt_count) :
                     keys \in {CamelKeys, SnakeKeys}, voltage \in {600, 1000},
                     mppt_count \in {2, 6} }
    IN bases \cup { WithEntry(d, "ratedACPowerW", w) : d \in bases, w \in {PyNone, 5000, 8000} }

NoInverter == <<>>

\* create_inverter_specs_object: inverter_specs_data[0] of a non-empty
\* dictionary is a lookup of the key 0, which no specification has
create_inverter_specs_object(arg) ==
    \* dict.get(key, default)
    LET get(d, key, default) == IF key \in DOMAIN d THEN d[key] ELSE default
    IN
    \* InverterSpecs(...) as create_inverter_specs_object fills it: eight fields,
    \* the rated AC power is not among them
    LET inverter_specs_from(inverter_data) ==
            [max_dc_voltage |-> get(inverter_data, "max_dc_input_voltage", 0),
             mppt_min_voltage |-> get(inverter_data, "mppt_operating_voltage_min_range", 0),
             mppt_max_voltage |-> get(inverter_data, "mppt_operating_voltage_max_range", 0),
             max_dc_current_per_mppt |-> get(inverter_data, "max_dc_input_current_per_mppt", 0),
             max_dc_current_per_string |-> get(inverter_data, "max_dc_input_current_per_string", 0),
             number_of_mppts |-> get(inverter_data, "number_of_mppts", 0),
             startup_voltage |-> get(inverter_data, "startup_voltage", 0)]
    IN
    IF arg.kind = "dict"
    THEN [error |-> "KeyError", object |-> NoInverter]
    ELSE [error |-> "none",
          object |-> inverter_specs_from(IF arg.list # <<>> THEN arg.list[1] ELSE <<>>)]

\* a caller runs create_inverter_specs_object
CreateInverterSpecsObject ==
    /\ engine = "parser" /\ pc = "new"
    /\ LET r == create_inverter_specs_object(inverter_specs_data)
       IN inverter_specs' = r.object /\ raised' = r.error
    /\ pc' = "parsed"
    /\ UNCHANGED <<engine, panel_specs, temperature_data, roof_planes, validate_power,
                   standalone, min_panels_per_string, max_panels_per_string,
                   ideal_panels_per_string, power_validator, straggler_warnings,
                   all_clusters, all_strings, unstrung_panels, mppts, all_connections,
                   formatted_output, runs, first_output>>

InitParser ==
    \* the argument: the specification itself (the request format) or a list of
    \* specifications (what parse_inverter_specs_csv returns)
    LET ParserArguments ==
            [kind : {"dict"}, dict : Specifications]
            \cup [kind : {"list"}, list : {<<d>> : d \in Specifications} \cup {<<>>}]
    IN
    /\ engine = "parser"
    /\ panel_specs = <<>>
    /\ inverter_specs = NoInverter
    /\ temperature_data \in Temperatures
    /\ roof_planes = <<>>
    /\ validate_power = FALSE
    /\ inverters_quantity = NoQuantity
    /\ inverter_specs_data \in ParserArguments
    /\ valid_string_plans = <<>> /\ call_stack = <<>> /\ combinations = <<>>
    /\ query = <<>> /\ validation = <<>>
    /\ NoSorter
    /\ NotConstructed

NextParser == CreateInverterSpecsObject

SpecParser == InitParser /\ [][NextParser]_vars

\* C18: create_inverter_specs_object raises ValueError when the specification
\* has no ratedACPowerW entry or has ratedACPowerW = None, and returns an
\* inverter object carrying that rated AC power when the entry is present
C18_RatedPowerValidated ==
    \* the specification an argument is about
    LET SpecificationOf(arg) ==
            IF arg.kind = "dict" THEN arg.dict
            ELSE IF arg.list = <<>> THEN <<>> ELSE arg.list[1]
    IN
    \* the specification has a ratedACPowerW entry that is not None
    LET HasRatedPower(d) == "ratedACPowerW" \in DOMAIN d /\ d["ratedACPowerW"] # PyNone
    IN
    pc = "parsed" =>
        LET d == SpecificationOf(inverter_specs_data)
        IN IF HasRatedPower(d)
           THEN /\ raised = "none"
                /\ "rated_ac_power_w" \in DOMAIN inverter_specs
                /\ inverter_specs["rated_ac_power_w"] = d["ratedACPowerW"]
           ELSE raised = "ValueError"

\* C19: without power validation the k-th MPPT that fits the capacity is
\* placed, under an id of its own, on inverter k div number_of_mppts + 1; every
\* inverter but the last holds number_of_mppts MPPTs and M placed MPPTs use
\* ceil(M / number_of_mppts) inverters
C19_MpptsFillInvertersInOrder ==
    \* how many MPPTs the inverters of the plan hold
    LET PlacedMppts == SumMppts(all_connections)
    IN
    \* the k-th MPPT of the packer (k from 0) sits on inverter k div number_of_mppts
    \* + 1, in the slot that follows the MPPTs placed before it
    LET PlacedInOrder(k) ==
            LET inv == (k \div inverter_specs.number_of_mppts) + 1
                slot == (k % inverter_specs.number_of_mppts) + 1
            IN /\ inv \in DOMAIN all_connections
               /\ slot \in DOMAIN all_connections[inv].mppts
               /\ all_connections[inv].mppts[slot].strings = mppts[k + 1]
    IN
    (pc \in {"assigned", "done"} /\ power_validator = NoValidator) =>
        LET per == inverter_specs.number_of_mppts
            capacity == per * inverter_specs.number_of_inverters
        IN /\ \A k \in 0..(MinOf(Len(mppts), capacity) - 1) : PlacedInOrder(k)
           /\ \A inv \in DOMAIN all_connections :
                 inv < Len(all_connections) => Len(all_connections[inv].mppts) = per
           /\ Len(all_connections) = (PlacedMppts + per - 1) \div per

(***************************************************************************)
(* The string builders called on an ordered panel list:                    *)
(* SolarStringingOptimizer._create_modulus_strings with                    *)
(* _handle_remainder_with_modulus, and                                     *)
(* SimpleStringingOptimizer._create_strings_from_sorted_ids                *)
(***************************************************************************)
MaxBuilt == 6

MaxLength == 4

\* the first count strings of string_length panels each, cut from panels
\* (for i in range(count): panels[panel_index:panel_index + string_length])
RECURSIVE FullStrings(_, _, _)
FullStrings(panels, string_length, count) ==
    IF count = 0 THEN <<>>
    ELSE <<Ids(SubSeq(panels, 1, string_length))>>
         \o FullStrings(SubSeq(panels, string_length + 1, Len(panels)),
                        string_length, count - 1)

\* for string_length in range(max_panels, min_panels - 1, -1): the first
\* length that fits makes the strings, the rest of the panels is one more
\* string when it has min_panels panels and stragglers otherwise; without a
\* string every panel is a straggler
handle_remainder_with_modulus(panels, min_panels, max_panels) ==
    LET panel_count == Len(panels)
        RECURSIVE RemainderLoop(_)
        RemainderLoop(string_length) ==
            LET num_strings == panel_count \div string_length
                remainder == panel_count % string_length
                remaining_panels ==
                    SubSeq(panels, num_strings * string_length + 1, panel_count)
            IN IF string_length < min_panels THEN [strings |-> <<>>, stragglers |-> <<>>]
               ELSE IF panel_count >= string_length /\ num_strings > 0
               THEN [strings |-> FullStrings(panels, string_length, num_strings)
                                 \o (IF remainder > 0 /\ remainder >= min_panels
                                     THEN <<Ids(remaining_panels)>> ELSE <<>>),
                     stragglers |-> IF remainder > 0 /\ remainder < min_panels
                                    THEN remaining_panels ELSE <<>>]
               ELSE RemainderLoop(string_length - 1)
    IN IF panel_count = 0 THEN [strings |-> <<>>, stragglers |-> <<>>]
       ELSE LET made == RemainderLoop(max_panels)
            IN IF made.strings = <<>>
               THEN [strings |-> <<>>, stragglers |-> made.stragglers \o panels]
               ELSE made

create_modulus_strings(panels, ideal_length, min_panels, max_panels) ==
    LET panel_count == Len(panels)
        num_full_strings == panel_count \div ideal_length
        remainder == panel_count % ideal_length
        rest == IF remainder > 0
                THEN handle_remainder_with_modulus(
                         SubSeq(panels, num_full_strings * ideal_length + 1, panel_count),
                         min_panels, max_panels)
                ELSE [strings |-> <<>>, stragglers |-> <<>>]
    IN [strings |-> FullStrings(panels, ideal_length, num_full_strings) \o rest.strings,
        stragglers |-> rest.stragglers]

\* for panel_id in sorted_panel_ids: the current string is closed when it
\* reaches the ideal length. Only the list of strings is returned: a remainder
\* shorter than the minimum is in none of them
create_strings_from_sorted_ids(sorted_panel_ids, min_panels, ideal) ==
    LET RECURSIVE StringsLoop(_, _, _)
        StringsLoop(ids, current_string, strings) ==
            IF ids = <<>> THEN [strings |-> strings, current_string |-> current_string]
            ELSE LET grown == Append(current_string, Head(ids))
                 IN IF Len(grown) >= ideal
                    THEN StringsLoop(Tail(ids), <<>>, Append(strings, grown))
                    ELSE StringsLoop(Tail(ids), grown, strings)
        looped == StringsLoop(sorted_panel_ids, <<>>, <<>>)
    IN IF looped.current_string # <<>> /\ Len(looped.current_string) >= min_panels
       THEN Append(looped.strings, looped.current_string)
       ELSE looped.strings

CreateModulusStrings ==
    /\ engine = "solar" /\ pc = "building"
    /\ LET built == create_modulus_strings(panel_specs, ideal_panels_per_string,
                        min_panels_per_string, max_panels_per_string)
       IN /\ all_strings' = built.strings
          /\ unstrung_panels' = built.stragglers
    /\ pc' = "built"
    /\ UNCHANGED <<inputs, standalone, min_panels_per_string,
                   max_panels_per_string, ideal_panels_per_string, power_validator,
                   straggler_warnings, all_clusters, mppts, all_connections,
                   formatted_output, raised, runs, first_output>>

CreateStringsFromSortedIds ==
    /\ engine = "stringer" /\ pc = "building"
    /\ all_strings' = create_strings_from_sorted_ids(sorted_ids,
                          min_panels_per_string, ideal_panels_per_string)
    /\ pc' = "built"
    /\ UNCHANGED <<inputs, standalone, min_panels_per_string,
                   max_panels_per_string, ideal_panels_per_string, power_validator,
                   straggler_warnings, all_clusters, unstrung_panels, mppts,
                   all_connections, formatted_output, raised, runs, first_output>>

InitBuilder ==
    \* ordered panel lists of 0..MaxBuilt panels, in grid order and reversed
    LET BuilderPanelLists ==
            UNION { { MakePanels(SubSeq(CellSeq, 1, n), 1000, type, 1),
                      Reverse(MakePanels(SubSeq(CellSeq, 1, n), 1000, type, 1)) } :
                    n \in 0..MinOf(MaxBuilt, Len(CellSeq)), type \in PanelTypes }
    IN
    /\ engine \in {"solar", "stringer"}
    /\ panel_specs \in BuilderPanelLists
    /\ inverter_specs \in SorterInverters
    /\ temperature_data \in Temperatures
    /\ roof_planes = <<>>
    /\ validate_power = FALSE
    /\ NoSorter
    /\ min_panels_per_string \in 1..MaxLength
    /\ max_panels_per_string \in min_panels_per_string..MaxLength
    /\ ideal_panels_per_string \in min_panels_per_string..max_panels_per_string
    /\ sorted_ids = IF engine = "stringer" THEN Ids(panel_specs) ELSE <<>>
    /\ pc = "building"
    /\ power_validator = NoValidator
    /\ straggler_warnings = <<>>
    /\ all_clusters = <<>>
    /\ all_strings = <<>>
    /\ unstrung_panels = <<>>
    /\ mppts = <<>>
    /\ all_connections = <<>>
    /\ formatted_output = NoOutput
    /\ raised = "none"
    /\ runs = 1
    /\ first_output = NoOutput
    /\ inverters_quantity = NoQuantity
    /\ inverter_specs_data = NoData
    /\ valid_string_plans = <<>> /\ call_stack = <<>> /\ combinations = <<>>
    /\ query = <<>> /\ validation = <<>>

NextBuilder == CreateModulusStrings \/ CreateStringsFromSortedIds

SpecBuilder == InitBuilder /\ [][NextBuilder]_vars

\* C20: the strings and the stragglers a string builder returns hold each
\* panel of the ordered list it was given exactly once; a remainder shorter
\* than min_panels is among the stragglers
C20_BuilderKeepsEveryPanel ==
    pc = "built" =>
        IsPermutationOf(Flatten(all_strings) \o Ids(unstrung_panels), panel_specs)

\* C21: when the constraint calculator has returned without an error, its three
\* results are ordered: min_panels <= ideal_length <= max_panels
C21_ConstraintsOrdered ==
    (pc = "constructed" /\ raised = "none") =>
        /\ min_panels_per_string <= ideal_panels_per_string
        /\ ideal_panels_per_string <= max_panels_per_string

(***************************************************************************)
(* v2 on roofs that carry different panel types                            *)
(***************************************************************************)
InitMixed ==
    \* the panels of roof "r1" are of a second type with three quarters of the
    \* voltages
    LET OtherType(panels) ==
            [i \in DOMAIN panels |->
                IF panels[i].roof_plane_id = "r1"
                THEN [panels[i] EXCEPT !.voc_stc = 38, !.vmpp_stc = 30]
                ELSE panels[i]]
    IN
    /\ engine = "v2"
    /\ panel_specs \in {OtherType(ps) : ps \in PanelLists}
    /\ inverter_specs \in V2Inverters
    /\ temperature_data \in Temperatures
    /\ roof_planes = <<>>
    /\ validate_power \in BOOLEAN
    /\ NoSorter
    /\ Constructed

SpecMixed == InitMixed /\ [][NextV2]_vars

\* C22: all strings connected in parallel on one MPPT have the same number of
\* panels
C22_ParallelStringsSameLength ==
    \A m \in DOMAIN mppts :
        \A a, b \in DOMAIN mppts[m] : Len(mppts[m][a]) = Len(mppts[m][b])

\* C23: after the first straggler pass every string lies inside one proximity
\* cluster (a straggler was appended only to a string of its own cluster) and
\* no string is longer than max_panels
C23_AbsorbedWithinOwnCluster ==
    (engine = "stringer" /\ pc = "absorbed") =>
        \A i \in DOMAIN all_strings :
            /\ Len(all_strings[i]) <= max_panels_per_string
            /\ \E c \in DOMAIN identify_clusters :
                  Range(all_strings[i]) \subseteq Range(Ids(identify_clusters[c].cluster))

(***************************************************************************)
(* SolarStringingOptimizer, exhaustive strategy: _optimize_exhaustive      *)
(***************************************************************************)
MaxExhaustive == 6

\* float('inf')
inf == 2147483647

\* _calculate_temperature_adjusted_voltages and the window computed by
\* _generate_valid_string_plans for one group (temp_range "extreme")
string_length_range(panels) ==
    LET \* calculate_voc_normalized: -0.286 * T + 107.143 percent, times 1000
        calculate_voc_normalized(t) == 107143 - 286 * t
        representative_panel == panels[1]
        cold_temp == temperature_data.min_temp_c
        hot_temp == temperature_data.max_temp_c + 20
        \* voc_stc * voc_norm / 100, times 100000
        max_voltage == representative_panel.voc_stc * calculate_voc_normalized(cold_temp)
        \* vmpp_stc * voc_norm / 100 * 0.95, times 2000000 (0.95 / 100000 = 19 / 2000000)
        min_voltage == representative_panel.vmpp_stc * calculate_voc_normalized(hot_temp) * 19
        ceil(a, b) == (a + b - 1) \div b
        max_panels_safety == IntDiv(inverter_specs.max_dc_voltage * 100000, max_voltage)
        max_panels_operational == IntDiv(inverter_specs.mppt_max_voltage * 2000000, min_voltage)
    IN [min_per_string |-> ceil(inverter_specs.mppt_min_voltage * 2000000, min_voltage),
        max_per_string |-> MinOf(max_panels_safety, max_panels_operational),
        min_voltage |-> min_voltage]

\* the stop of range(min_per_string, min(max_per_string + 1, remaining_panels + 1))
range_stop_exclusive(max_per_string, remaining_panels) ==
    MinOf(max_per_string, remaining_panels + 1)
range_stop(max_per_string, remaining_panels) ==
    MinOf(max_per_string + 1, remaining_panels + 1)

\* _generate_valid_string_plans: the next group of temp_adjusted is taken and
\* _find_string_combinations(panel_count, min, max) is called
FindStringCombinations ==
    /\ engine = "solar" /\ pc \in {"constructed", "enumerating"}
    /\ Len(valid_string_plans) < Len(group_by_roof_plane)
    /\ LET group == group_by_roof_plane[Len(valid_string_plans) + 1]
           range == string_length_range(group.panels)
       IN call_stack' = << [remaining_panels |-> Len(group.panels),
                            string_length |-> range.min_per_string] >>
    /\ combinations' = <<>>
    /\ pc' = "backtracking"
    /\ UNCHANGED <<inputs, panels_data, method, sorted_ids, inverters_quantity,
                   inverter_specs_data, valid_string_plans, query, validation,
                   min_panels_per_string,
                   max_panels_per_string, ideal_panels_per_string, power_validator,
                   straggler_warnings, all_clusters, all_strings, unstrung_panels,
                   mppts, all_connections, formatted_output, raised, runs, first_output>>

\* _find_string_combinations.backtrack, one step of the innermost call: it
\* records a combination and returns, enters the next call, or returns at the
\* end of its range; each frame keeps remaining_panels and the string_length
\* its loop is at, current_combination is the string_length of the frames below
Backtrack ==
    /\ engine = "solar" /\ pc = "backtracking"
    /\ LET \* sys.getrecursionlimit(), scaled to the panel counts explored: the
           \* deepest chain of calls a group of MaxExhaustive panels needs is
           \* MaxExhaustive + 1
           RecursionLimit == MaxExhaustive + 3
           group == group_by_roof_plane[Len(valid_string_plans) + 1]
           range == string_length_range(group.panels)
           depth == Len(call_stack)
           top == call_stack[depth]
           current_combination == [i \in 1..(depth - 1) |-> call_stack[i].string_length]
           \* after the return the caller pops and its loop moves on
           returned ==
               IF depth = 1 THEN <<>>
               ELSE [SubSeq(call_stack, 1, depth - 1) EXCEPT ![depth - 1].string_length = @ + 1]
           found ==
               IF top.remaining_panels = 0 THEN Append(combinations, current_combination)
               ELSE combinations
       IN IF \/ top.remaining_panels = 0
             \/ top.string_length >= range_stop(range.max_per_string, top.remaining_panels)
          THEN /\ call_stack' = returned
               /\ combinations' = found
               /\ IF returned = <<>>
                  THEN /\ valid_string_plans' =
                            Append(valid_string_plans,
                                   [group_id |-> group.roof_id, combinations |-> found])
                       /\ pc' = "enumerating"
                  ELSE UNCHANGED <<valid_string_plans, pc>>
               /\ raised' = raised
          ELSE IF ~(top.remaining_panels >= top.string_length)
          THEN /\ call_stack' = [call_stack EXCEPT ![depth].string_length = @ + 1]
               /\ UNCHANGED <<combinations, valid_string_plans, pc, raised>>
          ELSE IF depth >= RecursionLimit
          THEN /\ raised' = "RecursionError"
               /\ pc' = "failed"
               /\ UNCHANGED <<call_stack, combinations, valid_string_plans>>
          ELSE /\ call_stack' =
                    Append(call_stack,
                           [remaining_panels |-> top.remaining_panels - top.string_length,
                            string_length |-> range.min_per_string])
               /\ UNCHANGED <<combinations, valid_string_plans, pc, raised>>
    /\ UNCHANGED <<inputs, panels_data, method, sorted_ids, inverters_quantity,
                   inverter_specs_data, query, validation, min_panels_per_string,
                   max_panels_per_string, ideal_panels_per_string, power_validator,
                   straggler_warnings, all_clusters, all_strings, unstrung_panels,
                   mppts, all_connections, formatted_output, runs, first_output>>

\* _generate_complete_plans: one combination per group, the first group's
\* combination changing slowest; a plan is the sequence of its dict items
RECURSIVE generate_complete_plans(_)
generate_complete_plans(valid_plans) ==
    IF valid_plans = <<>> THEN << <<>> >>
    ELSE LET rest == generate_complete_plans(Tail(valid_plans))
             group == Head(valid_plans)
         IN Flatten([c \in DOMAIN group.combinations |->
                       [r \in DOMAIN rest |->
                          << [group_name |-> group.group_id,
                              string_lengths |-> group.combinations[c]] >> \o rest[r]]])

\* _greedy_mppt_assignment: <<len(mppts), connections>>; a string joins the
\* first MPPT that holds strings of its length and has current to spare
greedy_mppt_assignment(strings) ==
    LET \* list.sort(key=length, reverse=True): stable
        RECURSIVE InsertString(_, _)
        InsertString(sorted, string_data) ==
            IF sorted = <<>> THEN <<string_data>>
            ELSE IF Head(sorted).length >= string_data.length
                 THEN <<Head(sorted)>> \o InsertString(Tail(sorted), string_data)
                 ELSE <<string_data>> \o sorted
        RECURSIVE SortStrings(_, _)
        SortStrings(sorted, rest) ==
            IF rest = <<>> THEN sorted
            ELSE SortStrings(InsertString(sorted, Head(rest)), Tail(rest))
        RECURSIVE Assign(_, _)
        Assign(assigned, rest) ==
            IF rest = <<>> THEN assigned
            ELSE LET string_data == Head(rest)
                     same_length_strings(mppt) ==
                         SelectSeq(mppt, LAMBDA q : q.length = string_data.length)
                     panel_isc == panel_specs[1].isc_stc
                     parallel ==
                         {k \in DOMAIN assigned :
                            /\ same_length_strings(assigned[k]) # <<>>
                            /\ (Len(same_length_strings(assigned[k])) + 1) * panel_isc
                                 <= inverter_specs.max_dc_current_per_mppt}
                 IN IF parallel # {}
                    THEN Assign([assigned EXCEPT ![Min(parallel)] = Append(@, string_data)],
                                Tail(rest))
                    ELSE Assign(Append(assigned, <<string_data>>), Tail(rest))
        assigned_mppts == Assign(<<>>, SortStrings(<<>>, strings))
        RoofsOf(mppt) == {mppt[i].roof_plane : i \in DOMAIN mppt}
        PanelsOn(mppt, roof_plane) ==
            Flatten([i \in DOMAIN mppt |->
                       IF mppt[i].roof_plane = roof_plane THEN mppt[i].panels ELSE <<>>])
        Key(mppt_index) ==
            << ((mppt_index - 1) \div inverter_specs.number_of_mppts) + 1,
               ((mppt_index - 1) % inverter_specs.number_of_mppts) + 1 >>
        connections ==
            [roof_plane \in UNION {RoofsOf(assigned_mppts[k]) : k \in DOMAIN assigned_mppts} |->
               [key \in {Key(k) : k \in {j \in DOMAIN assigned_mppts :
                                           roof_plane \in RoofsOf(assigned_mppts[j])}} |->
                  PanelsOn(assigned_mppts[CHOOSE k \in DOMAIN assigned_mppts : Key(k) = key],
                           roof_plane)]]
    IN <<Len(assigned_mppts), connections>>

\* _calculate_mppts_for_plan: the strings of the plan are cut from the panels
\* of each group; the rest of the function (1815-1888) repeats
\* _greedy_mppt_assignment statement by statement
calculate_mppts_for_plan(plan) ==
    LET panel_groups(group_name) ==
            PanelsOfRoof(panel_specs, group_name)
        RECURSIVE StringsOfGroup(_, _, _)
        StringsOfGroup(group_name, string_lengths, panel_index) ==
            IF string_lengths = <<>> THEN <<>>
            ELSE << [length |-> Head(string_lengths),
                     panels |-> [i \in 1..Head(string_lengths) |->
                                    panel_groups(group_name)[panel_index + i].panel_id],
                     roof_plane |-> group_name] >>
                 \o StringsOfGroup(group_name, Tail(string_lengths),
                                   panel_index + Head(string_lengths))
        all_strings_with_panels ==
            Flatten([g \in DOMAIN plan |->
                       StringsOfGroup(plan[g].group_name, plan[g].string_lengths, 0)])
    IN greedy_mppt_assignment(all_strings_with_panels)

\* _optimize_mppt_assignments: the first complete plan with the fewest MPPTs
\* (mppts_used < min_mppts_used); None and float('inf') when there is no plan
optimize_mppt_assignments_last(valid_plans) ==
    LET complete_plans == generate_complete_plans(valid_plans)
        RECURSIVE Best(_, _)
        Best(best, i) ==
            IF i > Len(complete_plans) THEN best
            ELSE LET r == calculate_mppts_for_plan(complete_plans[i])
                 IN IF r[1] <= best.total_mppts_used
                    THEN Best([group_plans |-> complete_plans[i], total_mppts_used |-> r[1],
                               connections |-> r[2]], i + 1)
                    ELSE Best(best, i + 1)
    IN Best([group_plans |-> PyNone, total_mppts_used |-> inf, connections |-> PyNone], 1)
optimize_mppt_assignments(valid_plans) ==
    LET complete_plans == generate_complete_plans(valid_plans)
        RECURSIVE Best(_, _)
        Best(best, i) ==
            IF i > Len(complete_plans) THEN best
            ELSE LET r == calculate_mppts_for_plan(complete_plans[i])
                 IN IF r[1] < best.total_mppts_used
                    THEN Best([group_plans |-> complete_plans[i], total_mppts_used |-> r[1],
                               connections |-> r[2]], i + 1)
                    ELSE Best(best, i + 1)
    IN Best([group_plans |-> PyNone, total_mppts_used |-> inf, connections |-> PyNone], 1)

\* _optimize_exhaustive after the enumeration: Phase 3 and the returned plan
OptimizeMpptAssignments ==
    /\ engine = "solar" /\ pc \in {"constructed", "enumerating"}
    /\ Len(valid_string_plans) = Len(group_by_roof_plane)
    /\ formatted_output' = optimize_mppt_assignments(valid_string_plans)
    /\ pc' = "done"
    /\ UNCHANGED <<inputs, standalone, min_panels_per_string,
                   max_panels_per_string, ideal_panels_per_string, power_validator,
                   straggler_warnings, all_clusters, all_strings, unstrung_panels,
                   mppts, all_connections, raised, runs, first_output>>

\* optimizers of the exhaustive strategy: up to MaxExhaustive panels on one or
\* two roofs, inverters with every MPPT start voltage a caller may supply
InitExhaustive ==
    LET Counts == 1..MaxExhaustive
        ExhaustiveInverters ==
            [ max_dc_voltage : {120, 180, 240},
              mppt_min_voltage : {0, 30, 60, 90},
              mppt_max_voltage : {480},
              max_dc_current_per_mppt : {15, 25},
              number_of_mppts : {2},
              startup_voltage : {60},
              rated_ac_power_w : {5000},
              number_of_inverters : {1} ]
    IN
    /\ engine = "solar"
    /\ panel_specs \in
         { MakePanels(SubSeq(CellSeq, 1, MinOf(n, Len(CellSeq))), split, type, 1) :
             n \in Counts, split \in RoofSplits \cup {60}, type \in PanelTypes }
    /\ inverter_specs \in ExhaustiveInverters
    /\ temperature_data \in Temperatures
    /\ roof_planes = <<>>
    /\ validate_power = FALSE
    /\ NoSorter
    /\ min_panels_per_string = 0
    /\ max_panels_per_string = 0
    /\ ideal_panels_per_string = 0
    /\ sorted_ids = <<>>
    /\ pc = "constructed"
    /\ power_validator = NoValidator
    /\ straggler_warnings = <<>>
    /\ all_clusters = <<>>
    /\ all_strings = <<>>
    /\ unstrung_panels = <<>>
    /\ mppts = <<>>
    /\ all_connections = <<>>
    /\ formatted_output = NoOutput
    /\ raised = "none"
    /\ runs = 1
    /\ first_output = NoOutput
    /\ inverters_quantity = NoQuantity
    /\ inverter_specs_data = NoData
    /\ valid_string_plans = <<>> /\ call_stack = <<>> /\ combinations = <<>>
    /\ query = <<>> /\ validation = <<>>

NextExhaustive == FindStringCombinations \/ Backtrack \/ OptimizeMpptAssignments

SpecExhaustive == InitExhaustive /\ [][NextExhaustive]_vars

\* the interpreter runs every started call of the enumeration to its end
SpecExhaustiveFair == SpecExhaustive /\ WF_vars(FindStringCombinations \/ Backtrack)

(***************************************************************************)
(* SolarStringingOptimizer, heuristic strategy: _optimize_heuristic        *)
(***************************************************************************)
MaxHeuristic == 5

\* _handle_stragglers: the stragglers of each roof, sorted by (y, x), are cut
\* into strings of 3 to 9 panels; two that are left make a pair, one that is
\* left is joined to the closest panel of its roof. The 'type' of a string is
\* left out
handle_stragglers(stragglers) ==
    LET roofs == RoofOrder(stragglers, {})
        key_before(p, q) ==
            \/ p.center_coords[2] < q.center_coords[2]
            \/ /\ p.center_coords[2] = q.center_coords[2]
               /\ p.center_coords[1] < q.center_coords[1]
        RECURSIVE InsertByPosition(_, _)
        InsertByPosition(sorted, p) ==
            IF sorted = <<>> THEN <<p>>
            ELSE IF key_before(p, Head(sorted)) THEN <<p>> \o sorted
                 ELSE <<Head(sorted)>> \o InsertByPosition(Tail(sorted), p)
        RECURSIVE SortByPosition(_, _)
        SortByPosition(sorted, rest) ==
            IF rest = <<>> THEN sorted
            ELSE SortByPosition(InsertByPosition(sorted, Head(rest)), Tail(rest))
        min_panels == 3
        max_panels == 9
        string_of(panel_ids, roof_id) ==
            [length |-> Len(panel_ids), panels |-> panel_ids, roof_plane |-> roof_id]
        \* min(all_roof_panels, key=distance): the first of the closest
        closest_panel(single_panel, all_roof_panels) ==
            all_roof_panels[
                Min({i \in DOMAIN all_roof_panels :
                       \A j \in DOMAIN all_roof_panels :
                          distance(single_panel, all_roof_panels[i])
                            <= distance(single_panel, all_roof_panels[j])})]
        RECURSIVE StringsOfRoof(_, _)
        StringsOfRoof(roof_stragglers, roof_id) ==
            LET remaining_count == Len(roof_stragglers)
                string_length == MinOf(remaining_count, max_panels)
                single_panel == roof_stragglers[1]
                all_roof_panels ==
                    SelectSeq(panel_specs,
                              LAMBDA p : /\ p.roof_plane_id = roof_id
                                         /\ p.panel_id # single_panel.panel_id)
            IN IF remaining_count = 0 THEN <<>>
               ELSE IF remaining_count >= min_panels
               THEN <<string_of(Ids(SubSeq(roof_stragglers, 1, string_length)), roof_id)>>
                    \o StringsOfRoof(SubSeq(roof_stragglers, string_length + 1,
                                            remaining_count), roof_id)
               ELSE IF remaining_count = 2
               THEN <<string_of(Ids(roof_stragglers), roof_id)>>
               ELSE IF all_roof_panels # <<>>
               THEN <<string_of(<<single_panel.panel_id,
                                  closest_panel(single_panel, all_roof_panels).panel_id>>,
                                roof_id)>>
               ELSE <<string_of(<<single_panel.panel_id>>, roof_id)>>
    IN Flatten([r \in DOMAIN roofs |->
                  StringsOfRoof(SortByPosition(<<>>, PanelsOfRoof(stragglers, roofs[r])),
                                roofs[r])])

\* _greedy_string_optimization (use_snake_pattern False): all_strings keeps the
\* list handed to _greedy_mppt_assignment, unstrung_panels keeps all_stragglers
GreedyStringOptimization ==
    /\ engine = "solar" /\ pc = "heuristic"
    /\ LET groups == group_by_roof_plane
           ideal_info(panels) ==
               LET range == string_length_range(panels)
                   \* round(mppt_max_voltage * 0.85 / min_voltage)
                   num == inverter_specs.mppt_max_voltage * 1700000
                   rounded == (2 * num + range.min_voltage) \div (2 * range.min_voltage)
               IN [min_panels |-> range.min_per_string,
                   max_panels |-> range.max_per_string,
                   ideal_length |-> MaxOf(range.min_per_string,
                                          MinOf(rounded, range.max_per_string))]
           built(g) ==
               LET info == ideal_info(groups[g].panels)
               IN create_modulus_strings(groups[g].panels, info.ideal_length,
                                         info.min_panels, info.max_panels)
           group_strings(g) ==
               [i \in DOMAIN built(g).strings |->
                  [length |-> Len(built(g).strings[i]),
                   panels |-> built(g).strings[i],
                   roof_plane |-> groups[g].panels[1].roof_plane_id]]
           all_stragglers == Flatten([g \in DOMAIN groups |-> built(g).stragglers])
           handed ==
               Flatten([g \in DOMAIN groups |-> group_strings(g)])
                 \o handle_stragglers(all_stragglers)
           packed == greedy_mppt_assignment(handed)
       IN /\ all_strings' = handed
          /\ unstrung_panels' = all_stragglers
          /\ formatted_output' =
                [group_plans |->
                    [g \in DOMAIN groups |->
                       [group_name |-> groups[g].roof_id,
                        string_lengths |->
                            [i \in DOMAIN built(g).strings |-> Len(built(g).strings[i])]]],
                 total_mppts_used |-> packed[1],
                 connections |-> packed[2]]
    /\ pc' = "done"
    /\ UNCHANGED <<inputs, standalone, min_panels_per_string,
                   max_panels_per_string, ideal_panels_per_string, power_validator,
                   straggler_warnings, all_clusters, mppts, all_connections,
                   raised, runs, first_output>>

\* optimizers whose optimize() takes the heuristic strategy (min_heur_panels
\* below the panel count): up to MaxHeuristic panels on one or two roofs
InitHeuristic ==
    LET HeuristicInverters ==
            [ max_dc_voltage : {120, 180, 240},
              mppt_min_voltage : {60, 90},
              mppt_max_voltage : {480},
              max_dc_current_per_mppt : {15, 25},
              number_of_mppts : {1, 2},
              startup_voltage : {60},
              rated_ac_power_w : {5000},
              number_of_inverters : {1} ]
        cells == SubSeq(CellSeq, 1, MinOf(MaxHeuristic, Len(CellSeq)))
    IN
    /\ engine = "solar"
    /\ panel_specs \in
         { MakePanels(SelectInOrder(cells, S), split, type, 1) :
             S \in (SUBSET Range(cells)) \ {{}}, split \in RoofSplits \cup {60},
             type \in PanelTypes }
    /\ inverter_specs \in HeuristicInverters
    /\ temperature_data \in Temperatures
    /\ roof_planes = <<>>
    /\ validate_power = FALSE
    /\ NoSorter
    /\ min_panels_per_string = 0
    /\ max_panels_per_string = 0
    /\ ideal_panels_per_string = 0
    /\ sorted_ids = <<>>
    /\ pc = "heuristic"
    /\ power_validator = NoValidator
    /\ straggler_warnings = <<>>
    /\ all_clusters = <<>>
    /\ all_strings = <<>>
    /\ unstrung_panels = <<>>
    /\ mppts = <<>>
    /\ all_connections = <<>>
    /\ formatted_output = NoOutput
    /\ raised = "none"
    /\ runs = 1
    /\ first_output = NoOutput
    /\ inverters_quantity = NoQuantity
    /\ inverter_specs_data = NoData
    /\ valid_string_plans = <<>> /\ call_stack = <<>> /\ combinations = <<>>
    /\ query = <<>> /\ validation = <<>>

NextHeuristic == GreedyStringOptimization

SpecHeuristic == InitHeuristic /\ [][NextHeuristic]_vars

\* C24: when the enumeration yields complete plans, the returned plan uses the
\* fewest MPPTs of all of them and is the first enumerated plan that does
C24_FirstMinimumReturned ==
    LET complete_plans == generate_complete_plans(valid_string_plans)
        mppts_used(i) == calculate_mppts_for_plan(complete_plans[i])[1]
    IN
    (engine = "solar" /\ pc = "done" /\ Len(complete_plans) > 0) =>
        LET least == Min({mppts_used(i) : i \in DOMAIN complete_plans})
            first == Min({i \in DOMAIN complete_plans : mppts_used(i) = least})
        IN /\ formatted_output.total_mppts_used = least
           /\ formatted_output.group_plans = complete_plans[first]

\* a plan was returned although a later enumerated plan needs as few MPPTs and
\* another one needs more
C24_Witness ==
    LET complete_plans == generate_complete_plans(valid_string_plans)
        mppts_used(i) == calculate_mppts_for_plan(complete_plans[i])[1]
    IN
    /\ engine = "solar" /\ pc = "done"
    /\ \E i, j \in DOMAIN complete_plans :
          /\ i < j
          /\ mppts_used(i) = formatted_output.total_mppts_used
          /\ mppts_used(j) = formatted_output.total_mppts_used
    /\ \E i \in DOMAIN complete_plans :
          mppts_used(i) > formatted_output.total_mppts_used

\* C25: what the enumeration returns for a group of n panels is exactly the
\* sequences of lengths within [min_per_string, max_per_string] that sum to n,
\* each of them once
C25_EnumerationIsExact ==
    \A g \in DOMAIN valid_string_plans :
        LET n == Len(group_by_roof_plane[g].panels)
            range == string_length_range(group_by_roof_plane[g].panels)
            returned == valid_string_plans[g].combinations
            Sum(q) == SumLens([i \in DOMAIN q |-> [j \in 1..q[i] |-> 0]])
            Expected ==
                {q \in UNION {[1..k -> range.min_per_string..range.max_per_string] : k \in 0..n} :
                    Sum(q) = n}
        IN /\ Range(returned) = Expected
           /\ \A a, b \in DOMAIN returned : a # b => returned[a] # returned[b]

\* a group of four or more panels came back with more than four sequences,
\* among them one with a string of max_per_string panels
C25_Witness ==
    \E g \in DOMAIN valid_string_plans :
        LET range == string_length_range(group_by_roof_plane[g].panels)
            returned == valid_string_plans[g].combinations
        IN /\ Len(group_by_roof_plane[g].panels) >= 4
           /\ Len(returned) > 4
           /\ \E a \in DOMAIN returned : \E i \in DOMAIN returned[a] :
                 returned[a][i] = range.max_per_string

\* C26: when some group has no valid sequence of string lengths, the returned
\* plan still has a finite MPPT count and a group plan for every other group
C26_PlanDespiteUnwritableGroup ==
    (/\ engine = "solar" /\ pc = "done"
     /\ \E g \in DOMAIN valid_string_plans : valid_string_plans[g].combinations = <<>>) =>
        IF formatted_output.total_mppts_used = inf THEN FALSE
        ELSE \A g \in DOMAIN valid_string_plans :
                valid_string_plans[g].combinations # <<>> =>
                    \E k \in DOMAIN formatted_output.group_plans :
                        formatted_output.group_plans[k].group_name =
                            valid_string_plans[g].group_id

\* C27: the enumeration comes to its end for every group: no call of
\* _find_string_combinations is left in progress and every group has its list
C27_EnumerationTerminates ==
    (engine = "solar" /\ pc = "constructed") ~>
        (call_stack = <<>> /\ Len(valid_string_plans) = Len(group_by_roof_plane))

\* C28: no panel id is in two of the strings handed to the MPPT packer
C28_NoPanelInTwoStrings ==
    (engine = "solar" /\ pc = "done" /\ valid_string_plans = <<>>
       /\ Len(all_strings) > 0) =>
        \A a, b \in DOMAIN all_strings :
            a # b => Range(all_strings[a].panels) \cap Range(all_strings[b].panels) = {}

\* C29: right after the clusters are identified, two panels of a roof plane are
\* in the same cluster exactly when a chain of panels of that plane, each at
\* most 100 from the next, links them, and every panel is in exactly one
\* cluster, a cluster of its own plane
C29_ClustersAreChains ==
    (engine = "stringer" /\ pc = "stringing" /\ Len(all_clusters) = Len(identify_clusters)) =>
        LET near(p, q) ==
                LET dx == p.center_coords[1] - q.center_coords[1]
                    dy == p.center_coords[2] - q.center_coords[2]
                IN dx * dx + dy * dy <= 100 * 100
            plane(p) == {q \in Range(panel_specs) : q.roof_plane_id = p.roof_plane_id}
            RECURSIVE Linked(_, _)
            Linked(S, P) ==
                LET more == S \cup {q \in P : \E p \in S : near(p, q)}
                IN IF more = S THEN S ELSE Linked(more, P)
            cluster_of(p) == {c \in DOMAIN all_clusters : p \in Range(all_clusters[c].cluster)}
        IN /\ \A p \in Range(panel_specs) :
                /\ Cardinality(cluster_of(p)) = 1
                /\ \A c \in cluster_of(p) :
                      /\ all_clusters[c].roof_id = p.roof_plane_id
                      /\ Cardinality({k \in DOMAIN all_clusters[c].cluster :
                                        all_clusters[c].cluster[k] = p}) = 1
           /\ \A p, q \in Range(panel_specs) :
                p.roof_plane_id = q.roof_plane_id =>
                    ((cluster_of(p) = cluster_of(q)) <=> (q \in Linked({p}, plane(p))))

\* a cluster holds two panels more than 100 apart that other panels link
C29_Witness ==
    /\ engine = "stringer" /\ pc = "stringing" /\ Len(all_clusters) = Len(identify_clusters)
    /\ \E c \in DOMAIN all_clusters :
          \E a, b \in DOMAIN all_clusters[c].cluster :
             distance(all_clusters[c].cluster[a], all_clusters[c].cluster[b]) > threshold

(***************************************************************************)
(* PowerValidator.validate_string_assignment called on its own            *)
(***************************************************************************)
MaxQuery == 8

\* a caller asks the validator about a candidate
ValidateStringAssignment ==
    /\ engine = "v2" /\ pc = "validating"
    /\ validation' = validate_string_assignment(power_validator, query.string_panel_count,
                                                query.current_inverter_dc_power)
    /\ pc' = "validated"
    /\ UNCHANGED <<inputs, panels_data, method, sorted_ids, inverters_quantity,
                   inverter_specs_data, valid_string_plans, call_stack, combinations,
                   query, min_panels_per_string, max_panels_per_string,
                   ideal_panels_per_string, power_validator, straggler_warnings,
                   all_clusters, all_strings, unstrung_panels, mppts, all_connections,
                   formatted_output, raised, runs, first_output>>

\* a validator made for the inverter and the panel type, asked about a
\* candidate of 1..MaxQuery panels for an inverter that carries 0..MaxQuery
\* panels already
InitValidator ==
    /\ engine = "v2"
    /\ panel_specs \in {MakePanels(SubSeq(CellSeq, 1, 1), 1000, type, 1) : type \in PanelTypes}
    /\ inverter_specs \in V2Inverters
    /\ temperature_data \in Temperatures
    /\ roof_planes = <<>>
    /\ validate_power = TRUE
    /\ NoSorter
    /\ min_panels_per_string = calc_min_panels
    /\ max_panels_per_string = calc_max_panels
    /\ ideal_panels_per_string = calc_ideal_panels
    /\ power_validator = PowerValidator
    /\ query \in [string_panel_count : 1..MaxQuery,
                  current_inverter_dc_power :
                      {calculate_string_power(PowerValidator, k) : k \in 0..MaxQuery}]
    /\ validation = <<>>
    /\ pc = "validating"
    /\ sorted_ids = <<>>
    /\ straggler_warnings = <<>>
    /\ all_clusters = <<>>
    /\ all_strings = <<>>
    /\ unstrung_panels = <<>>
    /\ mppts = <<>>
    /\ all_connections = <<>>
    /\ formatted_output = NoOutput
    /\ raised = "none"
    /\ runs = 1
    /\ first_output = NoOutput
    /\ inverters_quantity = NoQuantity
    /\ inverter_specs_data = NoData
    /\ valid_string_plans = <<>> /\ call_stack = <<>> /\ combinations = <<>>

NextValidator == ValidateStringAssignment

SpecValidator == InitValidator /\ [][NextValidator]_vars

\* C30 as stated: the recommended split point of an invalid answer is the
\* smaller of half the candidate and the number of panels that still fit
C30_SplitIsSmallerOfHalfAndFit ==
    (pc = "validated" /\ ~validation.valid) =>
        LET fit == Cardinality({k \in 1..query.string_panel_count :
                       query.current_inverter_dc_power + k * power_validator.power_per_panel
                         <= power_validator.max_dc_power_per_inverter})
        IN validation.recommended_split_index = MinOf(query.string_panel_count \div 2, fit)

\* C30: the recommended split point of an invalid answer is the smaller of
\* half the candidate (rounded down) and the number of panels that still fit,
\* and 1 when that is 0
C30_SplitAtLeastOne ==
    (pc = "validated" /\ ~validation.valid) =>
        LET fit == Cardinality({k \in 1..query.string_panel_count :
                       query.current_inverter_dc_power + k * power_validator.power_per_panel
                         <= power_validator.max_dc_power_per_inverter})
            smaller == MinOf(query.string_panel_count \div 2, fit)
        IN validation.recommended_split_index = IF smaller = 0 THEN 1 ELSE smaller

\* an invalid answer whose split point is what still fits, less than half
\* the candidate
C30_Witness ==
    /\ pc = "validated" /\ ~validation.valid
    /\ validation.recommended_split_index >= 2
    /\ validation.recommended_split_index < query.string_panel_count \div 2

====
